---- MODULE Spec2Model ----
(***************************************************************************)
(* Model of the test-python Sentry demonstration application.              *)
(*                                                                         *)
(* Part 1: the background task registry (app/background_tasks.py).         *)
(*   - BackgroundTaskManager.active_tasks is the shared dict.              *)
(*   - start_task, get_task_status, cancel_task and cleanup_completed_tasks *)
(*     are the calls of the API thread; each is one action (the whole       *)
(*     handler, its except/capture/raise path included).                    *)
(*   - every start_task spawns a threading.Thread running run_task; the     *)
(*     thread is a process of its own whose position (pc) advances one      *)
(*     registry access at a time, so its writes interleave with the calls.  *)
(* Part 2: the fault-injecting simulators (app/utils.py,                   *)
(*   app/external_apis.py, app/background_tasks.py), as pure operators of   *)
(*   their inputs, of the random draw and of the external backend's answer. *)
(*                                                                         *)
(* Python values: a dict is a function whose DOMAIN is its key set; None is *)
(* the string "None"; an exception is its class and its str().             *)
(* random.random() is a draw d in Draws standing for d/100.                *)
(***************************************************************************)
EXTENDS Integers, Sequences, FiniteSets, Bags, TLC

VARIABLES
    active_tasks,   \* BackgroundTaskManager.active_tasks: task_id -> record
    threads,        \* the live run_task threads (a bag: two may be at the same place)
    nstarted,       \* number of start_task calls so far
    last,           \* the call the API thread made in the latest step and how it
                    \* ended (NoCall when the latest step was a thread's)
    captured,       \* messages handed to sentry_sdk.capture_* by the latest step
    seenDone,       \* history: ids for which a poll has returned a non-pending status
    sim,            \* the latest direct invocation of a Domain Simulator: its
                    \* name, arguments, random draw, backend and outcome
    cleanup_run,    \* history: "first"/"second" when the API thread's latest call
                    \* is a first/repeated cleanup_completed_tasks and no thread
                    \* has written the registry since, "dirty" when one has,
                    \* "none" when the latest call is another one
    SQLALCHEMY_AVAILABLE,  \* database.py: whether the import of sqlalchemy succeeded
    SessionLocal,   \* database.py's global: None until init_db binds a sessionmaker
    users,          \* the rows of table 'users': id -> [email, name]
    users_id_seq,   \* the last value the table's id sequence has handed out
    db_call,        \* the latest call of the Entity Store and how it ended
    since_init,     \* history, kept from an init_db on for as long as every
                    \* create_user that succeeds brings a new email and no
                    \* delete_user succeeds: the ids the store held before and
                    \* after that init_db, and the number, the ids and the
                    \* emails of the users created since
    event,          \* the latest event handed to before_send_hook, and what
                    \* the hook returned for it
    response,       \* the latest request an /api/v1 handler answered: its
                    \* route, the exception its try block ended with, the
                    \* status and body it returned and what was reported
    nrequests       \* number of /api/v1 requests so far

\* the Entity Store's variables
database ==
    <<SQLALCHEMY_AVAILABLE, SessionLocal, users, users_id_seq, db_call, since_init>>

\* the HTTP layer's variables
api == <<response, nrequests>>

vars ==
    <<active_tasks, threads, nstarted, last, captured, seenDone, cleanup_run, sim,
      database, event, api>>

-----------------------------------------------------------------------------
(* Bounds of the model *)

MaxId == 2        \* random.randint draws task ids from 1..MaxId
MaxTasks == 2     \* start_task calls (threads) per behaviour

None == "None"

-----------------------------------------------------------------------------
(* Python helpers *)

\* dict.get(key): the value, or None when the key is absent
Get(d, key) == IF key \in DOMAIN d THEN d[key] ELSE None

\* d[key] = value on a dict d (adds the key when absent)
SetItem(d, key, value) ==
    [k \in DOMAIN d \cup {key} |-> IF k = key THEN value ELSE d[k]]

\* for key in keys: del d[key]
DelItems(d, keys) == [k \in DOMAIN d \ keys |-> d[k]]

\* f"task_{n}"
TaskIdOf(n) == "task_" \o ToString(n)

TaskIds == {TaskIdOf(n) : n \in 1 .. MaxId}

\* a string handed to the caller (a returned id, the message of a raised
\* exception), held as a record like the dicts the other calls return
Str(s) == [str |-> s]

\* str(KeyError(task_id)) is the repr of the key
KeyErrorStr(task_id) == "'" \o task_id \o "'"

NotFoundMsg(task_id) == "Task " \o task_id \o " not found"

UnknownTaskMsg(task_name) == "Unknown task: " \o task_name

-----------------------------------------------------------------------------
(* Outcomes of a simulator call.  ok: it returned payload; otherwise it      *)
(* raised exception class exc with str() msg.  reported: the messages it   *)
(* passed to sentry_sdk.capture_exception / capture_message on the way.    *)

Returned(payload) ==
    [ok |-> TRUE, exc |-> None, msg |-> None, payload |-> payload, reported |-> {}]

\* a returned dict d
ReturnedDict(d) ==
    [ok |-> TRUE, exc |-> None, msg |-> None, payload |-> "dict", dict |-> d,
     reported |-> {}]

Raised(exc, msg) ==
    [ok |-> FALSE, exc |-> exc, msg |-> msg, payload |-> None, reported |-> {}]

\* except Exception as e: sentry_sdk.capture_exception(e); raise
CaptureAndReraise(r) ==
    IF r.ok THEN r ELSE [r EXCEPT !.reported = @ \cup {r.msg}]

\* the two except clauses when the second one forgets capture_exception
ReraiseOrWrap_without_capture(r, passed, wrap, prefix) ==
    IF r.ok \/ r.exc \in passed
    THEN r
    ELSE [ok |-> FALSE, exc |-> wrap, msg |-> prefix \o r.msg, payload |-> None,
          reported |-> r.reported]

\* except <passed>: raise
\* except Exception as e: sentry_sdk.capture_exception(e); raise wrap(prefix + str(e))
ReraiseOrWrap(r, passed, wrap, prefix) ==
    IF r.ok \/ r.exc \in passed
    THEN r
    ELSE [ok |-> FALSE, exc |-> wrap, msg |-> prefix \o r.msg, payload |-> None,
          reported |-> r.reported \cup {r.msg}]

\* random.random() < p, both in hundredths
should_fail(draw, p) == draw < p

-----------------------------------------------------------------------------
(* The asynchronous simulators of background_tasks.py.  A payload stands    *)
(* for the returned dict without its random and clock fields               *)
(* (records_cleaned, report_id, sent_at, ...).                              *)

P_send_email_async == 15
P_bg_cleanup_old_data == 10
P_process_large_dataset == 5
P_generate_report_async == 8
P_sync_external_data == 12

send_email_async(draw) ==
    CaptureAndReraise(
        IF should_fail(draw, P_send_email_async)
        THEN Raised("ExternalAPIError", "Email service temporarily unavailable")
        ELSE Returned("send_email: sent"))

bg_cleanup_old_data(draw) ==
    CaptureAndReraise(
        IF should_fail(draw, P_bg_cleanup_old_data)
        THEN Raised("Exception", "Cleanup service error")
        ELSE Returned("cleanup_data: completed"))

process_large_dataset(draw) ==
    CaptureAndReraise(
        IF should_fail(draw, P_process_large_dataset)
        THEN Raised("Exception", "Dataset processing service error")
        ELSE Returned("process_dataset: completed"))

generate_report_async(draw) ==
    CaptureAndReraise(
        IF should_fail(draw, P_generate_report_async)
        THEN Raised("Exception", "Report generation service error")
        ELSE Returned("generate_report: completed"))

sync_external_data(draw) ==
    CaptureAndReraise(
        IF should_fail(draw, P_sync_external_data)
        THEN Raised("ExternalAPIError", "External sync service error")
        ELSE Returned("sync_data: completed"))

KnownTasks ==
    {"send_email", "cleanup_data", "process_dataset", "generate_report", "sync_data"}

\* the names start_task is called with: a known simulator and a name
\* run_background_task does not know
TaskNames == {"send_email", "resize_image"}

\* run_background_task without its else branch: an unknown name falls through
\* and the function returns None
run_background_task_no_else(task_name, draw) ==
    CaptureAndReraise(
        CASE task_name = "send_email" -> send_email_async(draw)
          [] task_name = "cleanup_data" -> bg_cleanup_old_data(draw)
          [] task_name = "process_dataset" -> process_large_dataset(draw)
          [] task_name = "generate_report" -> generate_report_async(draw)
          [] task_name = "sync_data" -> sync_external_data(draw)
          [] OTHER -> Returned(None))

\* run_background_task(task_name, *args, **kwargs) (lines 119-137): every
\* exception is captured (again) and re-raised
run_background_task(task_name, draw) ==
    CaptureAndReraise(
        CASE task_name = "send_email" -> send_email_async(draw)
          [] task_name = "cleanup_data" -> bg_cleanup_old_data(draw)
          [] task_name = "process_dataset" -> process_large_dataset(draw)
          [] task_name = "generate_report" -> generate_report_async(draw)
          [] task_name = "sync_data" -> sync_external_data(draw)
          [] OTHER -> Raised("ValueError", UnknownTaskMsg(task_name)))

-----------------------------------------------------------------------------
(* The simulators of utils.py and external_apis.py, as functions of their   *)
(* arguments, of the random draw and of what the HTTP backend answers.      *)

P_validate_email == 5
P_calculate_discount == 3
P_process_payment == 20
P_send_notification == 15
P_fetch_weather_data == 10
P_generate_report == 7
P_cleanup_old_data == 8
P_call_external_api == 10
P_process_file == 10

\* random.random() in hundredths: both sides of every fault probability, and
\* the ends of [0, 1)
Probabilities ==
    {P_send_email_async, P_bg_cleanup_old_data, P_process_large_dataset,
     P_generate_report_async, P_sync_external_data, P_validate_email,
     P_calculate_discount, P_process_payment, P_send_notification,
     P_fetch_weather_data, P_generate_report, P_cleanup_old_data,
     P_call_external_api, P_process_file}

Draws == {0, 99} \cup Probabilities \cup {p - 1 : p \in Probabilities}

\* what requests.get / requests.post meets
Backends == {"ok", "http_error", "timeout", "connection_error"}

Lower == {"a", "b", "c", "d", "e", "f", "g", "h", "i", "j", "k", "l", "m",
          "n", "o", "p", "q", "r", "s", "t", "u", "v", "w", "x", "y", "z"}
Upper == {"A", "B", "C", "D", "E", "F", "G", "H", "I", "J", "K", "L", "M",
          "N", "O", "P", "Q", "R", "S", "T", "U", "V", "W", "X", "Y", "Z"}
Digits == {"0", "1", "2", "3", "4", "5", "6", "7", "8", "9"}

\* re.match(r'^[a-zA-Z0-9._%+-]+@[a-zA-Z0-9.-]+\.[a-zA-Z]{2,}$', email), email a
\* sequence of characters; $ also matches before a final newline
MatchesWhole(e) ==
    \E i \in 1 .. Len(e), j \in 1 .. Len(e) :
        /\ e[i] = "@" /\ e[j] = "."
        /\ 1 < i /\ i + 1 < j /\ j + 2 <= Len(e)
        /\ \A k \in 1 .. i - 1 :
              e[k] \in Lower \cup Upper \cup Digits \cup {".", "_", "%", "+", "-"}
        /\ \A k \in i + 1 .. j - 1 :
              e[k] \in Lower \cup Upper \cup Digits \cup {".", "-"}
        /\ \A k \in j + 1 .. Len(e) : e[k] \in Lower \cup Upper

MatchesEmailPattern(e) ==
    \/ MatchesWhole(e)
    \/ Len(e) > 0 /\ e[Len(e)] = "\n" /\ MatchesWhole(SubSeq(e, 1, Len(e) - 1))

\* validate_email(email) (utils.py lines 13-33)
validate_email(email, draw) ==
    ReraiseOrWrap(
        IF email = <<>>
        THEN Raised("ValidationError", "Email cannot be empty")
        ELSE IF should_fail(draw, P_validate_email)
        THEN Raised("ValidationError", "Email validation service unavailable")
        ELSE IF ~MatchesEmailPattern(email)
        THEN Raised("ValidationError", "Invalid email format")
        ELSE Returned("True"),
        {"ValidationError"}, "ValidationError", "Email validation failed: ")

\* the multipliers without the vip entry
Multiplier_without_vip(user_type) ==
    CASE user_type = "regular" -> 10
      [] user_type = "premium" -> 11
      [] OTHER -> 10

\* one multiplier, 1.0, for every user type
Multiplier_flat(user_type) == 10

\* multipliers.get(user_type, 1.0), in tenths
Multiplier(user_type) ==
    CASE user_type = "regular" -> 10
      [] user_type = "premium" -> 11
      [] user_type = "vip" -> 12
      [] OTHER -> 10

\* calculate_discount making its fault draw before it checks its arguments
calculate_discount_draw_first(price, discount_percent, user_type, draw) ==
    ReraiseOrWrap(
        IF should_fail(draw, P_calculate_discount)
        THEN Raised("ValueError", "Discount calculation service error")
        ELSE IF price < 0
        THEN Raised("ValueError", "Price cannot be negative")
        ELSE IF discount_percent < 0 \/ discount_percent > 100
        THEN Raised("ValueError", "Discount percent must be between 0 and 100")
        ELSE LET final_discount == price * discount_percent * Multiplier(user_type)
             IN  ReturnedDict([original_price |-> price,
                               discount_percent |-> discount_percent,
                               discount_amount |-> final_discount,
                               final_price |-> price * 1000 - final_discount,
                               user_type |-> user_type]),
        {"ValueError"}, "ValueError", "Discount calculation failed: ")

\* calculate_discount(price, discount_percent, user_type) (utils.py lines
\* 35-72).  Prices are whole numbers; discount_amount and final_price are
\* exact, in thousandths (price * percent/100 * tenths/10, times 1000): the
\* rounding of the binary floating-point products is not modelled
calculate_discount(price, discount_percent, user_type, draw) ==
    ReraiseOrWrap(
        IF price < 0
        THEN Raised("ValueError", "Price cannot be negative")
        ELSE IF discount_percent < 0 \/ discount_percent > 100
        THEN Raised("ValueError", "Discount percent must be between 0 and 100")
        ELSE IF should_fail(draw, P_calculate_discount)
        THEN Raised("ValueError", "Discount calculation service error")
        ELSE LET final_discount == price * discount_percent * Multiplier(user_type)
             IN  ReturnedDict([original_price |-> price,
                           discount_percent |-> discount_percent,
                           discount_amount |-> final_discount,
                           final_price |-> price * 1000 - final_discount,
                           user_type |-> user_type]),
        {"ValueError"}, "ValueError", "Discount calculation failed: ")

\* process_payment whose limit check also rejects the limit itself
process_payment_limit_exclusive(card_number, amount, draw) ==
    ReraiseOrWrap(
        IF card_number = "" \/ Len(card_number) < 10
        THEN Raised("PaymentError", "Invalid card number")
        ELSE IF amount <= 0
        THEN Raised("PaymentError", "Invalid payment amount")
        ELSE IF amount >= 10000
        THEN Raised("PaymentError", "Payment amount exceeds limit")
        ELSE IF should_fail(draw, P_process_payment)
        THEN Raised("PaymentError", "Payment gateway temporarily unavailable")
        ELSE ReturnedDict([amount |-> amount, status |-> "success"]),
        {"PaymentError"}, "PaymentError", "Payment processing failed: ")

\* process_payment(card_number, amount) (external_apis.py lines 47-78)
process_payment(card_number, amount, draw) ==
    ReraiseOrWrap(
        IF card_number = "" \/ Len(card_number) < 10
        THEN Raised("PaymentError", "Invalid card number")
        ELSE IF amount <= 0
        THEN Raised("PaymentError", "Invalid payment amount")
        ELSE IF amount > 10000
        THEN Raised("PaymentError", "Payment amount exceeds limit")
        ELSE IF should_fail(draw, P_process_payment)
        THEN Raised("PaymentError", "Payment gateway temporarily unavailable")
        ELSE ReturnedDict([amount |-> amount, status |-> "success"]),
        {"PaymentError"}, "PaymentError", "Payment processing failed: ")

\* the exception requests raises for what the backend does
RequestsError(backend) ==
    CASE backend = "timeout" -> Raised("Timeout", "Read timed out")
      [] backend = "connection_error" -> Raised("ConnectionError", "Connection refused")
      [] backend = "http_error" -> Raised("HTTPError", "500 Server Error")

\* send_notification(user_id, message) (external_apis.py lines 80-111)
send_notification(draw, backend) ==
    ReraiseOrWrap(
        IF should_fail(draw, P_send_notification)
        THEN Raised("ExternalAPIError", "Notification service unavailable")
        ELSE IF backend \in {"timeout", "connection_error"}
        THEN RequestsError(backend)
        ELSE IF backend = "http_error"
        THEN Raised("ExternalAPIError", "Notification failed with status 500")
        ELSE ReturnedDict([status |-> "sent"]),
        {"ExternalAPIError"}, "ExternalAPIError", "Notification failed: ")

\* fetch_weather_data(city) (external_apis.py lines 113-142)
fetch_weather_data(city, draw, backend) ==
    ReraiseOrWrap(
        IF should_fail(draw, P_fetch_weather_data)
        THEN Raised("ExternalAPIError", "Weather service temporarily unavailable")
        ELSE IF backend # "ok"
        THEN RequestsError(backend)
        ELSE ReturnedDict([city |-> city]),
        {"ExternalAPIError"}, "ExternalAPIError", "Weather data fetch failed: ")

\* utils.py calls time.sleep without importing time
TimeSleepInUtils == Raised("NameError", "name 'time' is not defined")

\* generate_report(data, report_type) (utils.py lines 108-137); data a list
generate_report(data, draw) ==
    ReraiseOrWrap(
        IF data = <<>>
        THEN Raised("ValueError", "No data provided for report generation")
        ELSE IF should_fail(draw, P_generate_report)
        THEN Raised("ValueError", "Report generation service error")
        ELSE TimeSleepInUtils,
        {"ValueError"}, "Exception", "Report generation failed: ")

\* process_file(file_path) (utils.py lines 74-106); exists is what
\* os.path.exists(file_path) answers
process_file(file_path, exists, draw) ==
    ReraiseOrWrap(
        IF file_path = ""
        THEN Raised("ValueError", "File path cannot be empty")
        ELSE IF should_fail(draw, P_process_file)
        THEN Raised("FileNotFoundError", "File system temporarily unavailable")
        ELSE IF ~exists
        THEN Raised("FileNotFoundError", "File not found: " \o file_path)
        ELSE TimeSleepInUtils,
        {"FileNotFoundError", "ValueError"}, "Exception",
        "File processing failed: ")

\* cleanup_old_data(data_type, older_than_days) (utils.py lines 237-267)
cleanup_old_data(data_type, older_than_days, draw) ==
    ReraiseOrWrap(
        IF data_type = ""
        THEN Raised("ValueError", "Data type cannot be empty")
        ELSE IF older_than_days < 0
        THEN Raised("ValueError", "Days must be positive")
        ELSE IF should_fail(draw, P_cleanup_old_data)
        THEN Raised("ValueError", "Data cleanup service error")
        ELSE TimeSleepInUtils,
        {"ValueError"}, "Exception", "Data cleanup failed: ")

\* call_external_api(endpoint, timeout) (external_apis.py lines 13-45): when
\* the draw is below the probability the call only sleeps timeout + 1 seconds
\* before the request; each except clause reports and raises ExternalAPIError
call_external_api(draw, backend) ==
    LET slept == should_fail(draw, P_call_external_api)
        r == IF backend = "ok" THEN ReturnedDict([json |-> "response"])
             ELSE RequestsError(backend)
        msg == CASE backend = "timeout" -> "API request timed out"
                 [] backend = "connection_error" -> "Failed to connect"
                 [] backend = "http_error" -> "HTTP error 500"
                 [] OTHER -> None
    IN  IF r.ok
        THEN r
        ELSE [ok |-> FALSE, exc |-> "ExternalAPIError", msg |-> msg,
              payload |-> None,
              reported |-> {IF backend = "http_error" THEN r.msg ELSE msg}]

-----------------------------------------------------------------------------
(* BackgroundTaskManager: the calls *)

TerminalStatuses == {"completed", "failed", "cancelled"}

\* the record start_task inserts (lines 149-153).  started_at is
\* datetime.utcnow(); no code reads it back, so it is one opaque instant
UtcNow == "utcnow"

NewRecord(task_name) ==
    [task_name |-> task_name, started_at |-> UtcNow, status |-> "pending"]

\* the thread start_task creates (lines 156-166); val is run_task's local
\* result or e once the simulator has run
NewThread(task_id, task_name) ==
    [task_id |-> task_id, task_name |-> task_name, pc |-> "run", val |-> None]

\* get_task_status that forgets the result
get_task_status_without_result(tasks, task_id) ==
    IF task_id \notin DOMAIN tasks
    THEN [kind |-> "raise", val |-> Str(NotFoundMsg(task_id))]
    ELSE LET task_info == tasks[task_id]
         IN  [kind |-> "return",
              val |-> [task_id |-> task_id,
                       status |-> task_info["status"],
                       result |-> None,
                       error |-> Get(task_info, "error")]]

\* get_task_status's outcome (lines 176-191)
get_task_status(tasks, task_id) ==
    IF task_id \notin DOMAIN tasks
    THEN [kind |-> "raise", val |-> Str(NotFoundMsg(task_id))]
    ELSE LET task_info == tasks[task_id]
         IN  [kind |-> "return",
              val |-> [task_id |-> task_id,
                       status |-> task_info["status"],
                       result |-> Get(task_info, "result"),
                       error |-> Get(task_info, "error")]]

\* cancel_task that only cancels a task still pending
cancel_task_pending_only(tasks, task_id) ==
    IF task_id \notin DOMAIN tasks
    THEN [kind |-> "raise", val |-> Str(NotFoundMsg(task_id)), tasks |-> tasks]
    ELSE [kind |-> "return",
          val |-> [task_id |-> task_id, status |-> "cancelled"],
          tasks |-> IF tasks[task_id]["status"] = "pending"
                    THEN [tasks EXCEPT ![task_id] = SetItem(@, "status", "cancelled")]
                    ELSE tasks]

\* cancel_task that drops the record it cancels
cancel_task_removing(tasks, task_id) ==
    IF task_id \notin DOMAIN tasks
    THEN [kind |-> "raise", val |-> Str(NotFoundMsg(task_id)), tasks |-> tasks]
    ELSE [kind |-> "return",
          val |-> [task_id |-> task_id, status |-> "cancelled"],
          tasks |-> DelItems(tasks, {task_id})]

\* cancel_task that puts a fresh cancelled record in the place of the old
cancel_task_resetting(tasks, task_id) ==
    IF task_id \notin DOMAIN tasks
    THEN [kind |-> "raise", val |-> Str(NotFoundMsg(task_id)), tasks |-> tasks]
    ELSE [kind |-> "return",
          val |-> [task_id |-> task_id, status |-> "cancelled"],
          tasks |-> [tasks EXCEPT ![task_id] =
                        SetItem(NewRecord(@["task_name"]), "status", "cancelled")]]

\* cancel_task's outcome and the registry it leaves (lines 195-205)
cancel_task(tasks, task_id) ==
    IF task_id \notin DOMAIN tasks
    THEN [kind |-> "raise", val |-> Str(NotFoundMsg(task_id)), tasks |-> tasks]
    ELSE [kind |-> "return",
          val |-> [task_id |-> task_id, status |-> "cancelled"],
          tasks |-> [tasks EXCEPT ![task_id] = SetItem(@, "status", "cancelled")]]

\* the scan without 'cancelled' in its status list
completed_tasks_without_cancelled(tasks) ==
    {task_id \in DOMAIN tasks : tasks[task_id]["status"] \in {"completed", "failed"}}

\* the ids cleanup_completed_tasks collects (lines 210-213)
completed_tasks(tasks) ==
    {task_id \in DOMAIN tasks : tasks[task_id]["status"] \in TerminalStatuses}

\* cleanup_completed_tasks whose delete loop stops after its first id
cleanup_completed_tasks_deleting_one(tasks) ==
    LET done == completed_tasks(tasks)
        first == IF done = {} THEN {} ELSE {CHOOSE task_id \in done : TRUE}
    IN  [kind |-> "return",
         val |-> [cleaned_tasks |-> Cardinality(done)],
         tasks |-> DelItems(tasks, first)]

\* cleanup_completed_tasks's outcome and the registry it leaves (lines 209-218)
cleanup_completed_tasks(tasks) ==
    LET done == completed_tasks(tasks)
    IN  [kind |-> "return",
         val |-> [cleaned_tasks |-> Cardinality(done)],
         tasks |-> DelItems(tasks, done)]

\* what a call's except clause hands to sentry_sdk.capture_exception
CapturedBy(outcome) == IF outcome.kind = "raise" THEN {outcome.val.str} ELSE {}

NoCall == [op |-> None, arg |-> None, kind |-> None, val |-> Str(None)]

Called(op, arg, outcome) ==
    [op |-> op, arg |-> arg, kind |-> outcome.kind, val |-> outcome.val]

StartTask(n, task_name) ==
    LET task_id == TaskIdOf(n)
    IN  /\ nstarted < MaxTasks
        /\ active_tasks' =
              SetItem(active_tasks, task_id, NewRecord(task_name))
        /\ threads' = threads (+) SetToBag({NewThread(task_id, task_name)})
        /\ nstarted' = nstarted + 1
        /\ last' = Called("start_task", task_name,
                          [kind |-> "return", val |-> Str(task_id)])
        /\ captured' = {}
        /\ cleanup_run' = "none"
        /\ UNCHANGED <<seenDone, sim, database, event, api>>

\* the get_task_status call, apart from the history kept of it
GetTaskStatusCall(task_id) ==
    LET outcome == get_task_status(active_tasks, task_id)
    IN  /\ last' = Called("get_task_status", task_id, outcome)
        /\ captured' = CapturedBy(outcome)
        /\ cleanup_run' = "none"
        /\ UNCHANGED <<active_tasks, threads, nstarted, sim, database, event, api>>

GetTaskStatus(task_id) ==
    /\ GetTaskStatusCall(task_id)
    /\ UNCHANGED seenDone

\* a poll of the task lifecycle: get_task_status, its observation remembered
Poll(task_id) ==
    /\ GetTaskStatusCall(task_id)
    /\ seenDone' = IF last'.kind = "return" /\ last'.val.status # "pending"
                   THEN seenDone \cup {task_id}
                   ELSE seenDone

CancelTask(task_id) ==
    LET outcome == cancel_task(active_tasks, task_id)
    IN  /\ active_tasks' = outcome.tasks
        /\ last' = Called("cancel_task", task_id, outcome)
        /\ captured' = CapturedBy(outcome)
        /\ cleanup_run' = "none"
        /\ UNCHANGED <<threads, nstarted, seenDone, sim, database, event, api>>

CleanupCompletedTasks ==
    LET outcome == cleanup_completed_tasks(active_tasks)
    IN  /\ active_tasks' = outcome.tasks
        /\ last' = Called("cleanup_completed_tasks", None, outcome)
        /\ captured' = CapturedBy(outcome)
        /\ cleanup_run' = IF cleanup_run \in {"first", "second"}
                          THEN "second" ELSE "first"
        /\ UNCHANGED <<threads, nstarted, seenDone, sim, database, event, api>>

-----------------------------------------------------------------------------
(* run_task: the thread body, one registry access per step                  *)

\* thread t moves on as t2, or ends (its frame is gone)
Moved(t, t2) == (threads (-) SetToBag({t})) (+) SetToBag({t2})
Gone(t) == threads (-) SetToBag({t})

\* the ways run_background_task(task_name, ...) can end, over the draws
Outcomes(task_name) == {run_background_task(task_name, draw) : draw \in Draws}

\* line 158: result = run_background_task(...), or the except clause is entered
RunSimulator(t) ==
    /\ t.pc = "run"
    /\ \E r \in Outcomes(t.task_name) :
          /\ threads' =
                Moved(t, [t EXCEPT !.pc = IF r.ok THEN "l159" ELSE "l162",
                                   !.val = IF r.ok THEN r.payload ELSE r.msg])
          /\ captured' = r.reported
    /\ last' = NoCall
    /\ UNCHANGED <<active_tasks, nstarted, seenDone, cleanup_run, sim, database, event, api>>

\* the write of a thread that looks at the status first and leaves a
\* cancelled record alone
WriteRecord_unless_cancelled(t, at, key, value, next) ==
    /\ t.pc = at
    /\ IF t.task_id \in DOMAIN active_tasks
       THEN /\ active_tasks' =
                  IF active_tasks[t.task_id]["status"] = "cancelled"
                  THEN active_tasks
                  ELSE [active_tasks EXCEPT ![t.task_id] = SetItem(@, key, value)]
            /\ threads' = IF next = "done" THEN Gone(t)
                          ELSE Moved(t, [t EXCEPT !.pc = next])
       ELSE /\ UNCHANGED active_tasks
            /\ threads' = IF at \in {"l159", "l160"}
                          THEN Moved(t, [t EXCEPT !.pc = "l162",
                                                  !.val = KeyErrorStr(t.task_id)])
                          ELSE Gone(t)
    /\ captured' = {}
    /\ last' = NoCall
    /\ cleanup_run' = IF cleanup_run \in {"first", "second"}
                         /\ t.task_id \in DOMAIN active_tasks
                      THEN "dirty" ELSE cleanup_run
    /\ UNCHANGED <<nstarted, seenDone, sim, database, event, api>>

\* self.active_tasks[task_id][key] = value, at pc `at`: the write and the next
\* pc, or KeyError when the record is gone: inside the try the except clause
\* (line 162) is entered with e = KeyError, inside the except clause the
\* exception is uncaught and ends the thread
WriteRecord(t, at, key, value, next) ==
    /\ t.pc = at
    /\ IF t.task_id \in DOMAIN active_tasks
       THEN /\ active_tasks' =
                  [active_tasks EXCEPT ![t.task_id] = SetItem(@, key, value)]
            /\ threads' = IF next = "done" THEN Gone(t)
                          ELSE Moved(t, [t EXCEPT !.pc = next])
       ELSE /\ UNCHANGED active_tasks
            /\ threads' = IF at \in {"l159", "l160"}
                          THEN Moved(t, [t EXCEPT !.pc = "l162",
                                                  !.val = KeyErrorStr(t.task_id)])
                          ELSE Gone(t)
    /\ captured' = {}
    /\ last' = NoCall
    /\ cleanup_run' = IF cleanup_run \in {"first", "second"}
                         /\ t.task_id \in DOMAIN active_tasks
                      THEN "dirty" ELSE cleanup_run
    /\ UNCHANGED <<nstarted, seenDone, sim, database, event, api>>

SetCompleted(t) == WriteRecord(t, "l159", "status", "completed", "l160")
SetResult(t) == WriteRecord(t, "l160", "result", t.val, "done")
SetFailed(t) == WriteRecord(t, "l162", "status", "failed", "l163")
SetError(t) == WriteRecord(t, "l163", "error", t.val, "done")

-----------------------------------------------------------------------------
(* Direct invocations of the Domain Simulators (the HTTP layer or a test    *)
(* script calls them); the registry is not involved                         *)

NoInvocation ==
    [name |-> None, args |-> [none |-> None], draw |-> 0, backend |-> None,
     outcome |-> Returned(None)]

\* the registry's variables, which a direct invocation leaves alone
registry ==
    <<active_tasks, threads, nstarted, last, captured, seenDone, cleanup_run>>

\* "u@e.co", "u@e.co\n", "u@e.c", "ue" and the empty string
Emails ==
    {<<>>, <<"u", "@", "e", ".", "c", "o">>, <<"u", "@", "e", ".", "c", "o", "\n">>,
     <<"u", "@", "e", ".", "c">>, <<"u", "e">>}
Prices == {-1, 0, 100}
Percents == {-1, 0, 10, 100, 101}
UserTypes == {"regular", "premium", "vip", "guest"}
Cards == {"", "123", "invalid-card", "4111111111111111"}
Amounts == {-5, 0, 100, 10000, 10001}
Cities == {"London"}
DataLists == {<<>>, <<1, 2>>}
DataTypes == {"", "logs"}
Days == {-1, 0, 30}

InvokeValidateEmail ==
    \E email \in Emails, draw \in Draws :
        /\ sim' = [name |-> "validate_email", args |-> [email |-> email],
                   draw |-> draw, backend |-> None,
                   outcome |-> validate_email(email, draw)]
        /\ UNCHANGED <<registry, database, event, api>>

InvokeCalculateDiscount ==
    \E price \in Prices, discount_percent \in Percents,
       user_type \in UserTypes, draw \in Draws :
        /\ sim' = [name |-> "calculate_discount",
                   args |-> [price |-> price,
                             discount_percent |-> discount_percent,
                             user_type |-> user_type],
                   draw |-> draw, backend |-> None,
                   outcome |-> calculate_discount(price, discount_percent,
                                                  user_type, draw)]
        /\ UNCHANGED <<registry, database, event, api>>

InvokeProcessPayment ==
    \E card_number \in Cards, amount \in Amounts, draw \in Draws :
        /\ sim' = [name |-> "process_payment",
                   args |-> [card_number |-> card_number, amount |-> amount],
                   draw |-> draw, backend |-> None,
                   outcome |-> process_payment(card_number, amount, draw)]
        /\ UNCHANGED <<registry, database, event, api>>

InvokeSendNotification ==
    \E draw \in Draws, backend \in Backends :
        /\ sim' = [name |-> "send_notification", args |-> [none |-> None],
                   draw |-> draw, backend |-> backend,
                   outcome |-> send_notification(draw, backend)]
        /\ UNCHANGED <<registry, database, event, api>>

InvokeFetchWeatherData ==
    \E city \in Cities, draw \in Draws, backend \in Backends :
        /\ sim' = [name |-> "fetch_weather_data", args |-> [city |-> city],
                   draw |-> draw, backend |-> backend,
                   outcome |-> fetch_weather_data(city, draw, backend)]
        /\ UNCHANGED <<registry, database, event, api>>

InvokeGenerateReport ==
    \E data \in DataLists, draw \in Draws :
        /\ sim' = [name |-> "generate_report", args |-> [data |-> data],
                   draw |-> draw, backend |-> None,
                   outcome |-> generate_report(data, draw)]
        /\ UNCHANGED <<registry, database, event, api>>

InvokeCleanupOldData ==
    \E data_type \in DataTypes, older_than_days \in Days, draw \in Draws :
        /\ sim' = [name |-> "cleanup_old_data",
                   args |-> [data_type |-> data_type,
                             older_than_days |-> older_than_days],
                   draw |-> draw, backend |-> None,
                   outcome |-> cleanup_old_data(data_type, older_than_days, draw)]
        /\ UNCHANGED <<registry, database, event, api>>

FilePaths == {"", "/tmp/data.csv"}

InvokeProcessFile ==
    \E file_path \in FilePaths, exists \in BOOLEAN, draw \in Draws :
        /\ sim' = [name |-> "process_file",
                   args |-> [file_path |-> file_path, exists |-> exists],
                   draw |-> draw, backend |-> None,
                   outcome |-> process_file(file_path, exists, draw)]
        /\ UNCHANGED <<registry, database, event, api>>

InvokeSendEmailAsync ==
    \E draw \in Draws :
        /\ sim' = [name |-> "send_email_async", args |-> [none |-> None],
                   draw |-> draw, backend |-> None,
                   outcome |-> send_email_async(draw)]
        /\ UNCHANGED <<registry, database, event, api>>

InvokeSyncExternalData ==
    \E draw \in Draws :
        /\ sim' = [name |-> "sync_external_data", args |-> [none |-> None],
                   draw |-> draw, backend |-> None,
                   outcome |-> sync_external_data(draw)]
        /\ UNCHANGED <<registry, database, event, api>>

InvokeCallExternalApi ==
    \E draw \in Draws, backend \in Backends :
        /\ sim' = [name |-> "call_external_api", args |-> [none |-> None],
                   draw |-> draw, backend |-> backend,
                   outcome |-> call_external_api(draw, backend)]
        /\ UNCHANGED <<registry, database, event, api>>

-----------------------------------------------------------------------------
(* The Entity Store (app/database.py).  With sqlalchemy importable (real    *)
(* mode) the functions work on table 'users' through SessionLocal; without  *)
(* it (mock mode) get_user, create_user and get_all_users return made-up    *)
(* records.  The table is the backing database's: id is the primary key     *)
(* drawn from the table's sequence, email is unique and not null, and a     *)
(* failed commit is rolled back.  The database is taken to be reachable.    *)
(* Each operator yields the call's outcome and the table and sequence after *)
(* it.                                                                      *)

MaxUsers == 4     \* ids the sequence of table 'users' hands out per behaviour

P_get_user == 10
P_create_user == 5
P_get_all_users == 10

\* SessionLocal once init_db has bound it
Sessionmaker == "sessionmaker"

\* SessionLocal() while SessionLocal is None; raised before the try block
NoneTypeNotCallable == Raised("TypeError", "'NoneType' object is not callable")

NotFoundUserMsg(user_id) == "User with ID " \o ToString(user_id) \o " not found"

AlreadyExistsMsg(email) == "User with email " \o email \o " already exists"

\* the unique constraint's violation as the driver words it
UniqueViolationMsg(email) == "duplicate key value: users.email " \o email

\* the dict the functions build from a row
UserDict(table, user_id) ==
    [id |-> user_id, email |-> table[user_id].email,
     name |-> table[user_id].name, created_at |-> UtcNow]

\* the ids of the rows that hold email
IdsWithEmail(table, email) == {id \in DOMAIN table : table[id].email = email}

StoreResult(outcome, table, seq) ==
    [outcome |-> outcome, users |-> table, users_id_seq |-> seq]

TableResult(outcome, table) == [outcome |-> outcome, users |-> table]

\* the test users of _create_test_data, in insertion order
test_users ==
    <<[email |-> "john@example.com", name |-> "John Doe"],
      [email |-> "jane@example.com", name |-> "Jane Smith"],
      [email |-> "bob@example.com", name |-> "Bob Johnson"]>>

\* _create_test_data that adds the test users to a table that has rows too
\* (the added rows are keyed past the sequence, as the inserts would be)
_create_test_data_always(table, seq) ==
    [users |-> [id \in DOMAIN table \cup (seq + 1 .. seq + Len(test_users)) |->
                   IF id \in DOMAIN table THEN table[id] ELSE test_users[id - seq]],
     users_id_seq |-> seq + Len(test_users)]

\* _create_test_data (lines 70-89)
_create_test_data(table, seq) ==
    IF Cardinality(DOMAIN table) = 0
    THEN [users |-> [id \in seq + 1 .. seq + Len(test_users) |-> test_users[id - seq]],
          users_id_seq |-> seq + Len(test_users)]
    ELSE [users |-> table, users_id_seq |-> seq]

\* get_user (lines 91-124)
get_user(available, session, table, user_id, draw) ==
    IF ~available
    THEN ReturnedDict([id |-> user_id,
                       email |-> "user" \o ToString(user_id) \o "@example.com",
                       name |-> "Mock User " \o ToString(user_id),
                       created_at |-> UtcNow])
    ELSE IF session = None THEN NoneTypeNotCallable
    ELSE IF should_fail(draw, P_get_user)
    THEN CaptureAndReraise(Raised("OperationalError", "Database connection lost"))
    ELSE IF user_id \notin DOMAIN table
    THEN Raised("UserNotFoundError", NotFoundUserMsg(user_id))
    ELSE ReturnedDict(UserDict(table, user_id))


\* create_user whose except clauses forget db.rollback(): the row of a
\* refused insert stays in the session's table
create_user_without_rollback(available, session, table, seq, email, name, draw, rand_id) ==
    IF ~available
    THEN StoreResult(ReturnedDict([id |-> rand_id, email |-> email, name |-> name,
                                   created_at |-> UtcNow]),
                     table, seq)
    ELSE IF session = None THEN StoreResult(NoneTypeNotCallable, table, seq)
    ELSE IF should_fail(draw, P_create_user)
    THEN StoreResult(
             CaptureAndReraise(Raised("OperationalError", "Database connection timeout")),
             table, seq)
    ELSE LET inserted == SetItem(table, seq + 1, [email |-> email, name |-> name])
         IN  IF IdsWithEmail(table, email) # {}
             THEN StoreResult(
                      [ok |-> FALSE, exc |-> "Exception", msg |-> AlreadyExistsMsg(email),
                       payload |-> None, reported |-> {UniqueViolationMsg(email)}],
                      inserted, seq + 1)
             ELSE StoreResult(ReturnedDict(UserDict(inserted, seq + 1)),
                              inserted, seq + 1)

\* create_user (lines 126-164).  rand_id is random.randint(1, 1000) of the
\* mock.  The insert takes the sequence's next value whether or not the
\* commit succeeds; a rolled-back commit leaves no row
create_user(available, session, table, seq, email, name, draw, rand_id) ==
    IF ~available
    THEN StoreResult(ReturnedDict([id |-> rand_id, email |-> email, name |-> name,
                                   created_at |-> UtcNow]),
                     table, seq)
    ELSE IF session = None THEN StoreResult(NoneTypeNotCallable, table, seq)
    ELSE IF should_fail(draw, P_create_user)
    THEN StoreResult(
             CaptureAndReraise(Raised("OperationalError", "Database connection timeout")),
             table, seq)
    ELSE IF IdsWithEmail(table, email) # {}
    THEN StoreResult(
             [ok |-> FALSE, exc |-> "Exception", msg |-> AlreadyExistsMsg(email),
              payload |-> None, reported |-> {UniqueViolationMsg(email)}],
             table, seq + 1)
    ELSE LET inserted == SetItem(table, seq + 1, [email |-> email, name |-> name])
         IN  StoreResult(ReturnedDict(UserDict(inserted, seq + 1)), inserted, seq + 1)

\* get_all_users (lines 166-208): the entries, in no order.  The draw only
\* makes the query slow
get_all_users(available, session, table, draw) ==
    IF ~available
    THEN [ok |-> TRUE, exc |-> None, msg |-> None, payload |-> "list",
          list |-> {[id |-> 1, email |-> "john@example.com", name |-> "John Doe",
                     created_at |-> UtcNow],
                    [id |-> 2, email |-> "jane@example.com", name |-> "Jane Smith",
                     created_at |-> UtcNow]},
          reported |-> {}]
    ELSE IF session = None THEN NoneTypeNotCallable
    ELSE [ok |-> TRUE, exc |-> None, msg |-> None, payload |-> "list",
          list |-> {UserDict(table, id) : id \in DOMAIN table},
          reported |-> {}]

\* the attributes of a User row that update_user's kwargs can set here
Columns == {"email", "name"}

\* for key, value in kwargs.items(): if hasattr(user, key): setattr(...)
SetAttrs(row, kwargs) ==
    [c \in Columns |-> IF c \in DOMAIN kwargs THEN kwargs[c] ELSE row[c]]

\* update_user (lines 210-238): no mock branch, so without a session the
\* call ends at SessionLocal()
update_user(session, table, user_id, kwargs) ==
    IF session = None THEN TableResult(NoneTypeNotCallable, table)
    ELSE IF user_id \notin DOMAIN table
    THEN TableResult(Raised("UserNotFoundError", NotFoundUserMsg(user_id)), table)
    ELSE LET row == SetAttrs(table[user_id], kwargs)
         IN  IF IdsWithEmail(table, row.email) \ {user_id} # {}
             THEN TableResult(
                      CaptureAndReraise(
                          Raised("IntegrityError", UniqueViolationMsg(row.email))),
                      table)
             ELSE LET updated == SetItem(table, user_id, row)
                  IN  TableResult(ReturnedDict(UserDict(updated, user_id)), updated)

\* delete_user (lines 240-259): no mock branch either
delete_user(session, table, user_id) ==
    IF session = None THEN TableResult(NoneTypeNotCallable, table)
    ELSE IF user_id \notin DOMAIN table
    THEN TableResult(Raised("UserNotFoundError", NotFoundUserMsg(user_id)), table)
    ELSE TableResult(
             ReturnedDict([message |->
                              "User " \o ToString(user_id) \o " deleted successfully"]),
             DelItems(table, {user_id}))

-----------------------------------------------------------------------------
(* The calls of the Entity Store *)

NoDbCall ==
    [op |-> None, args |-> [none |-> None], draw |-> 0, outcome |-> Returned(None)]

NotTracked ==
    [tracked |-> FALSE, before |-> {}, initial |-> {}, n |-> 0, ids |-> {},
     emails |-> {}]

\* what a call of the store leaves alone besides the store
outside_database == <<registry, sim, event, api>>

UserIds == 1 .. MaxUsers
NewEmails == {"john@example.com", "ann@example.com", "eve@example.com"}
NewNames == {"Eve"}
Kwargs == {[email |-> "john@example.com"], [name |-> "Eve"], [role |-> "admin"]}
RandIds == {1, 2}

\* the draws on either side of probability p
DrawsAround(p) == {p - 1, p}

\* init_db (lines 48-68): returns at once without sqlalchemy, else binds
\* SessionLocal, creates the table and adds the test data
InitDb ==
    /\ SQLALCHEMY_AVAILABLE /\ users = [id \in {} |-> None]
          => users_id_seq + Len(test_users) <= MaxUsers
    /\ IF SQLALCHEMY_AVAILABLE
       THEN LET r == _create_test_data(users, users_id_seq)
            IN  /\ SessionLocal' = Sessionmaker
                /\ users' = r.users
                /\ users_id_seq' = r.users_id_seq
       ELSE UNCHANGED <<SessionLocal, users, users_id_seq>>
    /\ db_call' = [op |-> "init_db", args |-> [none |-> None], draw |-> 0,
                   outcome |-> Returned(None)]
    /\ since_init' =
          [tracked |-> TRUE,
           before |-> IF SQLALCHEMY_AVAILABLE THEN DOMAIN users ELSE {},
           initial |-> {entry.id : entry \in
                           get_all_users(SQLALCHEMY_AVAILABLE, SessionLocal',
                                         users', 99).list},
           n |-> 0, ids |-> {}, emails |-> {}]
    /\ UNCHANGED <<SQLALCHEMY_AVAILABLE, outside_database>>

GetUser ==
    \E user_id \in UserIds, draw \in DrawsAround(P_get_user) :
        /\ db_call' = [op |-> "get_user", args |-> [user_id |-> user_id],
                       draw |-> draw,
                       outcome |-> get_user(SQLALCHEMY_AVAILABLE, SessionLocal,
                                            users, user_id, draw)]
        /\ UNCHANGED <<SQLALCHEMY_AVAILABLE, SessionLocal, users, users_id_seq,
                       since_init, outside_database>>

CreateUser ==
    \E email \in NewEmails, name \in NewNames,
       draw \in DrawsAround(P_create_user), rand_id \in RandIds :
        LET r == create_user(SQLALCHEMY_AVAILABLE, SessionLocal, users,
                             users_id_seq, email, name, draw, rand_id)
        IN  /\ users_id_seq < MaxUsers
            /\ since_init.n < MaxUsers
            /\ since_init' =
                  IF ~since_init.tracked \/ ~r.outcome.ok THEN since_init
                  ELSE IF email \in since_init.emails THEN NotTracked
                  ELSE [since_init EXCEPT !.n = @ + 1,
                                          !.ids = @ \cup {r.outcome.dict.id},
                                          !.emails = @ \cup {email}]
            /\ db_call' = [op |-> "create_user",
                           args |-> [email |-> email, name |-> name],
                           draw |-> draw, outcome |-> r.outcome]
            /\ users' = r.users
            /\ users_id_seq' = r.users_id_seq
            /\ UNCHANGED <<SQLALCHEMY_AVAILABLE, SessionLocal, outside_database>>

GetAllUsers ==
    \E draw \in DrawsAround(P_get_all_users) :
        /\ db_call' = [op |-> "get_all_users", args |-> [none |-> None],
                       draw |-> draw,
                       outcome |-> get_all_users(SQLALCHEMY_AVAILABLE, SessionLocal,
                                                 users, draw)]
        /\ UNCHANGED <<SQLALCHEMY_AVAILABLE, SessionLocal, users, users_id_seq,
                       since_init, outside_database>>

UpdateUser ==
    \E user_id \in UserIds, kwargs \in Kwargs :
        LET r == update_user(SessionLocal, users, user_id, kwargs)
        IN  /\ db_call' = [op |-> "update_user",
                           args |-> [user_id |-> user_id, kwargs |-> kwargs],
                           draw |-> 0, outcome |-> r.outcome]
            /\ users' = r.users
            /\ UNCHANGED <<SQLALCHEMY_AVAILABLE, SessionLocal, users_id_seq,
                           since_init, outside_database>>

DeleteUser ==
    \E user_id \in UserIds :
        LET r == delete_user(SessionLocal, users, user_id)
        IN  /\ db_call' = [op |-> "delete_user", args |-> [user_id |-> user_id],
                           draw |-> 0, outcome |-> r.outcome]
            /\ users' = r.users
            /\ since_init' = IF r.outcome.ok THEN NotTracked ELSE since_init
            /\ UNCHANGED <<SQLALCHEMY_AVAILABLE, SessionLocal, users_id_seq,
                           outside_database>>

-----------------------------------------------------------------------------
(* The Capture Gateway's hook (app/sentry_config.py).  An event is the dict *)
(* the SDK hands to before_send: 'tags' is absent or a dict of strings,     *)
(* 'contexts' is absent or a dict of dicts.                                 *)

\* event.setdefault(key, {}) followed by event[key][name] = value
SetIn(e, key, name, value) ==
    SetItem(e, key,
            SetItem(IF key \in DOMAIN e THEN e[key] ELSE [k \in {} |-> None],
                    name, value))

\* before_send_hook that keeps a component tag the event already has
before_send_hook_setdefault(e, hint) ==
    SetIn(SetIn(IF "tags" \in DOMAIN e /\ "component" \in DOMAIN e.tags
                THEN e
                ELSE SetIn(e, "tags", "component", "test-python"),
                "tags", "test_project", "true"),
          "contexts", "test_info",
          [purpose |-> "Sentry development testing", version |-> "1.0.0"])

\* before_send_hook (lines 36-50); it returns the event, never None
before_send_hook(e, hint) ==
    SetIn(SetIn(SetIn(e, "tags", "component", "test-python"),
                "tags", "test_project", "true"),
          "contexts", "test_info",
          [purpose |-> "Sentry development testing", version |-> "1.0.0"])

TagKeys == {"component", "test_project", "environment"}
TagValues == {"test-project", "false"}
TagDicts == UNION {[keys -> TagValues] : keys \in SUBSET TagKeys}
ContextDicts ==
    {[k \in {} |-> None],
     [test_info |-> [purpose |-> "other"]],
     [os |-> [name |-> "Linux"]],
     [test_info |-> [purpose |-> "other"], os |-> [name |-> "Linux"]]}

\* an event with a message and, when asked for, the tags and the contexts
EventOf(has_tags, tags, has_contexts, contexts) ==
    [key \in {"message"} \cup (IF has_tags THEN {"tags"} ELSE {})
                         \cup (IF has_contexts THEN {"contexts"} ELSE {}) |->
        CASE key = "message" -> [str |-> "boom"]
          [] key = "tags" -> tags
          [] key = "contexts" -> contexts]

Events ==
    {EventOf(TRUE, tags, TRUE, contexts) :
        tags \in TagDicts, contexts \in ContextDicts}
    \cup {EventOf(TRUE, tags, FALSE, <<>>) : tags \in TagDicts}
    \cup {EventOf(FALSE, <<>>, TRUE, contexts) : contexts \in ContextDicts}
    \cup {EventOf(FALSE, <<>>, FALSE, <<>>)}

NoEvent == [called |-> FALSE, in |-> EventOf(FALSE, <<>>, FALSE, <<>>),
            out |-> EventOf(FALSE, <<>>, FALSE, <<>>)]

\* the SDK passes an event through the hook
BeforeSend ==
    \E e \in Events :
        /\ event' = [called |-> TRUE, in |-> e, out |-> before_send_hook(e, None)]
        /\ UNCHANGED <<registry, sim, database, api>>

-----------------------------------------------------------------------------
(* The /api/v1 handlers (api_endpoints.py).  Each runs its whole body in a  *)
(* try block and answers from the body's outcome.  The calls a handler      *)
(* makes are seen in response; last, sim and db_call hold the calls made    *)
(* directly                                                                 *)

MaxRequests == 2   \* /api/v1 requests per behaviour

P_api_health_check == 5

\* the status of the first except clause that catches exception class exc:
\* three handlers have an except UserNotFoundError clause, nine an except
\* ValidationError clause, and the last clause of all is except Exception
ErrorStatus(route, exc) ==
    IF /\ exc = "UserNotFoundError"
       /\ route \in {"api_get_user", "api_update_user", "api_delete_user"}
    THEN 404
    ELSE IF /\ exc = "ValidationError"
            /\ route \in {"api_create_user", "api_update_user",
                          "api_process_payment", "api_send_notification",
                          "api_get_weather", "api_generate_report",
                          "api_start_background_task", "api_get_task_status",
                          "api_cancel_task"}
    THEN 400
    ELSE 500

\* the handlers when their except clauses forget capture_exception
Response_without_capture(route, ok_status, r) ==
    IF r.ok
    THEN [route |-> route, exc |-> None, status |-> ok_status, success |-> TRUE,
          error |-> None, reported |-> r.reported]
    ELSE [route |-> route, exc |-> r.exc, status |-> ErrorStatus(route, r.exc),
          success |-> FALSE, error |-> r.msg, reported |-> r.reported]

\* what a handler answers when its try block ends as r: jsonify of the
\* result, or sentry_sdk.capture_exception(e) and jsonify of str(e)
Response(route, ok_status, r) ==
    IF r.ok
    THEN [route |-> route, exc |-> None, status |-> ok_status, success |-> TRUE,
          error |-> None, reported |-> r.reported]
    ELSE [route |-> route, exc |-> r.exc, status |-> ErrorStatus(route, r.exc),
          success |-> FALSE, error |-> r.msg,
          reported |-> r.reported \cup {r.msg}]

NoResponse ==
    [route |-> None, exc |-> None, status |-> 0, success |-> TRUE, error |-> None,
     reported |-> {}]

\* request.get_json() of a body that is not JSON
BadRequest ==
    Raised("BadRequest", "400 Bad Request: Failed to decode JSON object")

BodyRequired == Raised("ValidationError", "Request body is required")

EmptyDict == [key \in {} |-> None]

\* a Python str, held as a sequence of characters, as a TLA+ string
RECURSIVE StrOf(_)
StrOf(chars) == IF chars = <<>> THEN "" ELSE Head(chars) \o StrOf(Tail(chars))

\* the outcome of a registry call, in the form of the simulators' outcomes
OutcomeOf(called) ==
    IF called.kind = "raise"
    THEN Raised("ValueError", called.val.str)
    ELSE ReturnedDict(called.val)

\* the request bodies: none or {}, one with a field missing, whole ones.
\* The emails are john@example.com, eve@example.com and ue
UserBodies ==
    LET domain == <<"@", "e", "x", "a", "m", "p", "l", "e", ".", "c", "o", "m">>
        john == <<"j", "o", "h", "n">> \o domain
        eve == <<"e", "v", "e">> \o domain
    IN  {EmptyDict, [email |-> john],
         [email |-> <<"u", "e">>, name |-> "Eve"],
         [email |-> john, name |-> "Eve"],
         [email |-> eve, name |-> "Eve"]}
PaymentBodies ==
    {EmptyDict, [card_number |-> "4111111111111111"]}
    \cup {[card_number |-> card_number, amount |-> amount] :
             card_number \in {"invalid-card", "4111111111111111"},
             amount \in {-5, 0, 100, 10001}}
NotificationBodies ==
    {EmptyDict, [user_id |-> 1], [user_id |-> 1, message |-> "hello"]}
ReportBodies ==
    {EmptyDict, [report_type |-> "summary"], [filters |-> <<1, 2>>]}
TaskBodies ==
    {EmptyDict, [args |-> <<>>]} \cup {[task_name |-> name] : name \in TaskNames}

\* what every handler does with its try block's outcome r
Answer(route, ok_status, r) ==
    /\ nrequests < MaxRequests
    /\ response' = Response(route, ok_status, r)
    /\ nrequests' = nrequests + 1

\* what a handler of a user route leaves alone besides the table
outside_users ==
    <<registry, sim, event, SQLALCHEMY_AVAILABLE, SessionLocal, db_call, since_init>>

\* api_list_users (lines 19-36)
ApiListUsers ==
    \E draw \in DrawsAround(P_get_all_users) :
        /\ Answer("api_list_users", 200,
                  get_all_users(SQLALCHEMY_AVAILABLE, SessionLocal, users, draw))
        /\ UNCHANGED <<users, users_id_seq, outside_users>>

\* api_create_user (lines 38-77)
ApiCreateUser ==
    \E json \in BOOLEAN, data \in UserBodies,
       vdraw \in DrawsAround(P_validate_email),
       draw \in DrawsAround(P_create_user), rand_id \in RandIds :
        LET valid == validate_email(data.email, vdraw)
            unchanged == [users |-> users, users_id_seq |-> users_id_seq]
            r == IF ~json THEN StoreResult(BadRequest, users, users_id_seq)
                 ELSE IF data = EmptyDict
                 THEN StoreResult(BodyRequired, users, users_id_seq)
                 ELSE IF \/ "email" \notin DOMAIN data \/ data.email = <<>>
                         \/ "name" \notin DOMAIN data \/ data.name = ""
                 THEN StoreResult(
                          Raised("ValidationError", "Email and name are required"),
                          users, users_id_seq)
                 ELSE IF ~valid.ok THEN StoreResult(valid, users, users_id_seq)
                 ELSE create_user(SQLALCHEMY_AVAILABLE, SessionLocal, users,
                                  users_id_seq, StrOf(data.email), data.name,
                                  draw, rand_id)
        IN  /\ users_id_seq < MaxUsers
            /\ Answer("api_create_user", 201, r.outcome)
            /\ users' = r.users
            /\ users_id_seq' = r.users_id_seq
            /\ UNCHANGED outside_users

\* api_get_user (lines 79-104)
ApiGetUser ==
    \E user_id \in UserIds, draw \in DrawsAround(P_get_user) :
        /\ Answer("api_get_user", 200,
                  get_user(SQLALCHEMY_AVAILABLE, SessionLocal, users, user_id, draw))
        /\ UNCHANGED <<users, users_id_seq, outside_users>>

\* api_update_user (lines 106-144)
ApiUpdateUser ==
    \E json \in BOOLEAN, data \in {EmptyDict} \cup Kwargs, user_id \in UserIds :
        LET r == IF ~json THEN TableResult(BadRequest, users)
                 ELSE IF data = EmptyDict THEN TableResult(BodyRequired, users)
                 ELSE update_user(SessionLocal, users, user_id, data)
        IN  /\ Answer("api_update_user", 200, r.outcome)
            /\ users' = r.users
            /\ UNCHANGED <<users_id_seq, outside_users>>

\* api_delete_user (lines 146-171)
ApiDeleteUser ==
    \E user_id \in UserIds :
        LET r == delete_user(SessionLocal, users, user_id)
        IN  /\ Answer("api_delete_user", 200, r.outcome)
            /\ users' = r.users
            /\ UNCHANGED <<users_id_seq, outside_users>>

\* api_process_payment (lines 173-212); the amounts here are numbers, so
\* isinstance(amount, (int, float)) holds
ApiProcessPayment ==
    \E json \in BOOLEAN, data \in PaymentBodies,
       draw \in DrawsAround(P_process_payment) :
        /\ Answer("api_process_payment", 200,
                  IF ~json THEN BadRequest
                  ELSE IF data = EmptyDict THEN BodyRequired
                  ELSE IF \/ "card_number" \notin DOMAIN data \/ data.card_number = ""
                          \/ "amount" \notin DOMAIN data \/ data.amount = 0
                  THEN Raised("ValidationError", "Card number and amount are required")
                  ELSE IF data.amount <= 0
                  THEN Raised("ValidationError", "Amount must be a positive number")
                  ELSE process_payment(data.card_number, data.amount, draw))
        /\ UNCHANGED <<registry, sim, database, event>>

\* api_send_notification (lines 214-250)
ApiSendNotification ==
    \E json \in BOOLEAN, data \in NotificationBodies,
       draw \in DrawsAround(P_send_notification), backend \in Backends :
        /\ Answer("api_send_notification", 200,
                  IF ~json THEN BadRequest
                  ELSE IF data = EmptyDict THEN BodyRequired
                  ELSE IF \/ "user_id" \notin DOMAIN data \/ data.user_id = 0
                          \/ "message" \notin DOMAIN data \/ data.message = ""
                  THEN Raised("ValidationError", "User ID and message are required")
                  ELSE send_notification(draw, backend))
        /\ UNCHANGED <<registry, sim, database, event>>

\* api_get_weather (lines 252-281); the route matches no empty city
ApiGetWeather ==
    \E city \in Cities, draw \in DrawsAround(P_fetch_weather_data),
       backend \in Backends :
        /\ Answer("api_get_weather", 200,
                  IF city = ""
                  THEN Raised("ValidationError", "City name is required")
                  ELSE fetch_weather_data(city, draw, backend))
        /\ UNCHANGED <<registry, sim, database, event>>

\* api_generate_report (lines 283-316)
ApiGenerateReport ==
    \E json \in BOOLEAN, data \in ReportBodies,
       draw \in DrawsAround(P_generate_report) :
        /\ Answer("api_generate_report", 200,
                  IF ~json THEN BadRequest
                  ELSE IF data = EmptyDict THEN BodyRequired
                  ELSE generate_report(IF "filters" \in DOMAIN data
                                       THEN data.filters ELSE <<>>,
                                       draw))
        /\ UNCHANGED <<registry, sim, database, event>>

\* what a handler of a task route leaves alone besides the registry's
\* records and threads
outside_tasks == <<last, captured, seenDone, cleanup_run, sim, database, event>>

\* api_start_background_task (lines 318-355)
ApiStartBackgroundTask ==
    \E json \in BOOLEAN, data \in TaskBodies, n \in 1 .. MaxId :
        LET start == json /\ "task_name" \in DOMAIN data /\ data.task_name # ""
            task_id == TaskIdOf(n)
        IN  /\ nstarted < MaxTasks
            /\ Answer("api_start_background_task", 200,
                      IF ~json THEN BadRequest
                      ELSE IF data = EmptyDict THEN BodyRequired
                      ELSE IF ~start
                      THEN Raised("ValidationError", "Task name is required")
                      ELSE ReturnedDict([task_id |-> task_id]))
            /\ IF start
               THEN /\ active_tasks' =
                          SetItem(active_tasks, task_id, NewRecord(data.task_name))
                    /\ threads' = threads
                                  (+) SetToBag({NewThread(task_id, data.task_name)})
                    /\ nstarted' = nstarted + 1
               ELSE UNCHANGED <<active_tasks, threads, nstarted>>
            /\ UNCHANGED outside_tasks

\* api_get_task_status (lines 357-386); the route matches no empty task_id
ApiGetTaskStatus ==
    \E task_id \in TaskIds :
        /\ Answer("api_get_task_status", 200,
                  OutcomeOf(get_task_status(active_tasks, task_id)))
        /\ UNCHANGED <<active_tasks, threads, nstarted, outside_tasks>>

\* api_cancel_task (lines 388-417)
ApiCancelTask ==
    \E task_id \in TaskIds :
        LET called == cancel_task(active_tasks, task_id)
        IN  /\ Answer("api_cancel_task", 200, OutcomeOf(called))
            /\ active_tasks' = called.tasks
            /\ UNCHANGED <<threads, nstarted, outside_tasks>>

\* api_health_check (lines 419-447)
ApiHealthCheck ==
    \E draw \in DrawsAround(P_api_health_check) :
        /\ Answer("api_health_check", 200,
                  IF should_fail(draw, P_api_health_check)
                  THEN Raised("Exception", "Health check service error")
                  ELSE ReturnedDict([status |-> "healthy"]))
        /\ UNCHANGED <<registry, sim, database, event>>

-----------------------------------------------------------------------------

\* the state of everything but the Entity Store when the modules are loaded
InitOutsideDatabase ==
    /\ active_tasks = [task_id \in {} |-> None]
    /\ threads = EmptyBag
    /\ nstarted = 0
    /\ last = NoCall
    /\ captured = {}
    /\ seenDone = {}
    /\ cleanup_run = "none"
    /\ sim = NoInvocation
    /\ event = NoEvent
    /\ response = NoResponse
    /\ nrequests = 0

\* database.py loaded, init_db not yet called; table and seq are what the
\* backing database holds from earlier runs
InitDatabase(available, table, seq) ==
    /\ SQLALCHEMY_AVAILABLE = available
    /\ SessionLocal = None
    /\ users = table
    /\ users_id_seq = seq
    /\ db_call = NoDbCall
    /\ since_init = NotTracked

\* sqlalchemy present and a database that has never held a user
Init ==
    /\ InitOutsideDatabase
    /\ InitDatabase(TRUE, [id \in {} |-> None], 0)

Next ==
    \/ \E n \in 1 .. MaxId, task_name \in TaskNames : StartTask(n, task_name)
    \/ \E task_id \in TaskIds : GetTaskStatus(task_id)
    \/ \E task_id \in TaskIds : CancelTask(task_id)
    \/ CleanupCompletedTasks
    \/ \E t \in BagToSet(threads) : RunSimulator(t)
    \/ \E t \in BagToSet(threads) : SetCompleted(t)
    \/ \E t \in BagToSet(threads) : SetResult(t)
    \/ \E t \in BagToSet(threads) : SetFailed(t)
    \/ \E t \in BagToSet(threads) : SetError(t)

Spec == Init /\ [][Next]_vars

\* the task lifecycle alone: tasks are started and polled, never cancelled or
\* cleaned up
NextLifecycle ==
    \/ \E n \in 1 .. MaxId, task_name \in TaskNames : StartTask(n, task_name)
    \/ \E task_id \in TaskIds : Poll(task_id)
    \/ \E t \in BagToSet(threads) : RunSimulator(t)
    \/ \E t \in BagToSet(threads) : SetCompleted(t)
    \/ \E t \in BagToSet(threads) : SetResult(t)
    \/ \E t \in BagToSet(threads) : SetFailed(t)
    \/ \E t \in BagToSet(threads) : SetError(t)

LifecycleSpec == Init /\ [][NextLifecycle]_vars

\* the Domain Simulators called directly, one invocation after another
NextSim ==
    \/ InvokeValidateEmail
    \/ InvokeCalculateDiscount
    \/ InvokeProcessPayment
    \/ InvokeSendNotification
    \/ InvokeFetchWeatherData
    \/ InvokeGenerateReport
    \/ InvokeCleanupOldData
    \/ InvokeProcessFile
    \/ InvokeSendEmailAsync
    \/ InvokeSyncExternalData
    \/ InvokeCallExternalApi

SimSpec == Init /\ [][NextSim]_vars

\* the Entity Store's calls, with or without sqlalchemy, on a database that
\* is new or holds one user of an earlier run
InitStore ==
    /\ InitOutsideDatabase
    /\ \E available \in BOOLEAN :
          \/ InitDatabase(available, [id \in {} |-> None], 0)
          \/ InitDatabase(available,
                          [id \in {1} |-> [email |-> "ann@example.com", name |-> "Ann"]],
                          1)

NextStore ==
    \/ InitDb
    \/ GetUser
    \/ CreateUser
    \/ GetAllUsers
    \/ UpdateUser
    \/ DeleteUser

StoreSpec == InitStore /\ [][NextStore]_vars

\* events passing through the Capture Gateway's hook
NextGateway == BeforeSend

GatewaySpec == Init /\ [][NextGateway]_vars

\* the /api/v1 handlers once the application has called init_db, with or
\* without sqlalchemy, and the threads their tasks run in
InitApi ==
    /\ InitOutsideDatabase
    /\ \E available \in BOOLEAN :
          LET r == _create_test_data([id \in {} |-> None], 0)
          IN  /\ SQLALCHEMY_AVAILABLE = available
              /\ SessionLocal = IF available THEN Sessionmaker ELSE None
              /\ users = IF available THEN r.users ELSE [id \in {} |-> None]
              /\ users_id_seq = IF available THEN r.users_id_seq ELSE 0
              /\ db_call = NoDbCall
              /\ since_init = NotTracked

NextApi ==
    \/ ApiListUsers
    \/ ApiCreateUser
    \/ ApiGetUser
    \/ ApiUpdateUser
    \/ ApiDeleteUser
    \/ ApiProcessPayment
    \/ ApiSendNotification
    \/ ApiGetWeather
    \/ ApiGenerateReport
    \/ ApiStartBackgroundTask
    \/ ApiGetTaskStatus
    \/ ApiCancelTask
    \/ ApiHealthCheck
    \/ \E t \in BagToSet(threads) : RunSimulator(t)
    \/ \E t \in BagToSet(threads) : SetCompleted(t)
    \/ \E t \in BagToSet(threads) : SetResult(t)
    \/ \E t \in BagToSet(threads) : SetFailed(t)
    \/ \E t \in BagToSet(threads) : SetError(t)

ApiSpec == InitApi /\ [][NextApi]_vars

-----------------------------------------------------------------------------
(* Claims about the task registry.  In an action formula, last'.op = op     *)
(* says that the step is the API thread's call op: every call sets last,    *)
(* every thread step resets it to NoCall.                                   *)

Status(tasks, task_id) == tasks[task_id]["status"]

\* thread t took the step: one copy of it less is where it was
Stepped(t) == CopiesIn(t, threads') < CopiesIn(t, threads)

UnknownName(task_name) == task_name \notin KnownTasks

\* C1 (as claimed): start_task with a task name that is not a known simulator
\* raises to its caller, returns no task id, and no record for that call is
\* in the registry.
C1_UnknownTaskFailsSynchronously ==
    (last.op = "start_task" /\ UnknownName(last.arg)) =>
        /\ last.kind = "raise"
        /\ \A task_id \in DOMAIN active_tasks :
              active_tasks[task_id]["task_name"] # last.arg

\* C1 (amended): start_task with an unknown task name returns a task id,
\* inserts a pending record under it, starts the thread and reports nothing;
\* the thread's run_background_task raises "Unknown task: <name>" and reports
\* it, the thread never takes the success path, and its writes set status
\* 'failed' and error "Unknown task: <name>" on the record under its id.
C1_UnknownTaskFailsInWorker ==
    /\ [](\A t \in BagToSet(threads) :
            UnknownName(t.task_name) =>
                \/ t.pc = "run"
                \/ t.pc \in {"l162", "l163"} /\ t.val = UnknownTaskMsg(t.task_name))
    /\ [][/\ (last'.op = "start_task" /\ UnknownName(last'.arg)) =>
                /\ last'.kind = "return"
                /\ last'.val.str \in TaskIds
                /\ last'.val.str \in DOMAIN active_tasks'
                /\ active_tasks'[last'.val.str] =
                      [task_name |-> last'.arg, started_at |-> UtcNow,
                       status |-> "pending"]
                /\ BagIn([task_id |-> last'.val.str, task_name |-> last'.arg,
                          pc |-> "run", val |-> None], threads')
                /\ captured' = {}
          /\ \A t \in BagToSet(threads) :
                (UnknownName(t.task_name) /\ Stepped(t)) =>
                    /\ t.pc = "run" =>
                          UnknownTaskMsg(t.task_name) \in captured'
                    /\ (t.pc = "l162" /\ t.task_id \in DOMAIN active_tasks) =>
                          Status(active_tasks', t.task_id) = "failed"
                    /\ (t.pc = "l163" /\ t.task_id \in DOMAIN active_tasks) =>
                          active_tasks'[t.task_id]["error"] =
                              UnknownTaskMsg(t.task_name)
       ]_vars

\* a record of an unknown task name that its thread has marked failed
C1_Witness ==
    \E task_id \in DOMAIN active_tasks :
        LET task_info == active_tasks[task_id]
        IN  /\ UnknownName(task_info["task_name"])
            /\ task_info["status"] = "failed"
            /\ Get(task_info, "error") = UnknownTaskMsg(task_info["task_name"])

\* C2 (as claimed): once a record's status is completed, failed or cancelled
\* no step of cancel_task or of a thread changes it; the record can only be
\* removed, by cleanup_completed_tasks.  (start_task, which the claim names
\* too, is left to C7: it changes a record only by drawing its id again.)
C2_TerminalAbsorbing ==
    [][\A task_id \in DOMAIN active_tasks :
          (Status(active_tasks, task_id) \in TerminalStatuses
                /\ last'.op # "start_task") =>
              IF task_id \in DOMAIN active_tasks'
              THEN Status(active_tasks', task_id) = Status(active_tasks, task_id)
              ELSE last'.op = "cleanup_completed_tasks"
      ]_vars

\* C2 (amended): a record whose status is completed, failed or cancelled keeps
\* it, except that cancel_task of its id sets it to cancelled, a thread's
\* status write for its id sets it to completed or failed, and start_task
\* drawing its id again replaces it by a pending record; it is removed only
\* by cleanup_completed_tasks.
C2_TerminalLeftOnlyBy ==
    [][\A task_id \in DOMAIN active_tasks :
          Status(active_tasks, task_id) \in TerminalStatuses =>
              IF task_id \notin DOMAIN active_tasks'
              THEN last'.op = "cleanup_completed_tasks"
              ELSE \/ Status(active_tasks', task_id) = Status(active_tasks, task_id)
                   \/ /\ Status(active_tasks', task_id) = "cancelled"
                      /\ last'.op = "cancel_task" /\ last'.arg = task_id
                   \/ /\ Status(active_tasks', task_id) = "completed"
                      /\ \E t \in BagToSet(threads) :
                            t.task_id = task_id /\ t.pc = "l159" /\ Stepped(t)
                   \/ /\ Status(active_tasks', task_id) = "failed"
                      /\ \E t \in BagToSet(threads) :
                            t.task_id = task_id /\ t.pc = "l162" /\ Stepped(t)
                   \/ /\ Status(active_tasks', task_id) = "pending"
                      /\ last'.op = "start_task" /\ last'.val.str = task_id
      ]_vars

\* cancel_task has just overwritten the status of a failed record
C2_Witness ==
    /\ last.op = "cancel_task" /\ last.kind = "return"
    /\ "error" \in DOMAIN active_tasks[last.arg]
    /\ Status(active_tasks, last.arg) = "cancelled"

\* C3: start_task returns an id whose record is pending, and once a poll of
\* an id has returned a non-pending status no later poll of that id returns
\* pending.  (The claim's liveness part, that a poll eventually returns
\* completed or failed, is not in this formula.)
C3_PollNeverRevertsToPending ==
    /\ last.op = "start_task" =>
          /\ last.kind = "return"
          /\ last.val.str \in DOMAIN active_tasks
          /\ Status(active_tasks, last.val.str) = "pending"
    /\ (last.op = "get_task_status" /\ last.kind = "return"
            /\ last.arg \in seenDone) =>
          last.val.status # "pending"

\* C4: cancel_task of an id that is not in the registry raises not-found and
\* leaves the registry as it is; of an id that is, it returns status
\* cancelled and the record's status is cancelled, whatever it was.
C4_CancelTask ==
    [][last'.op = "cancel_task" =>
          IF last'.arg \notin DOMAIN active_tasks
          THEN /\ last'.kind = "raise"
               /\ last'.val = Str(NotFoundMsg(last'.arg))
               /\ active_tasks' = active_tasks
          ELSE /\ last'.kind = "return"
               /\ last'.val = [task_id |-> last'.arg, status |-> "cancelled"]
               /\ last'.arg \in DOMAIN active_tasks'
               /\ Status(active_tasks', last'.arg) = "cancelled"
      ]_vars

\* cancel_task has just cancelled a record that was completed
C4_Witness ==
    /\ last.op = "cancel_task" /\ last.kind = "return"
    /\ "result" \in DOMAIN active_tasks[last.arg]
    /\ ~("error" \in DOMAIN active_tasks[last.arg])
    /\ Status(active_tasks, last.arg) = "cancelled"

\* C5: cleanup_completed_tasks removes exactly the records whose status is
\* completed, failed or cancelled, leaves every pending record as it is, and
\* returns the number of records it removed.
C5_CleanupRemovesTerminal ==
    [][last'.op = "cleanup_completed_tasks" =>
          /\ last'.kind = "return"
          /\ DOMAIN active_tasks' =
                {task_id \in DOMAIN active_tasks :
                    Status(active_tasks, task_id) = "pending"}
          /\ \A task_id \in DOMAIN active_tasks' :
                active_tasks'[task_id] = active_tasks[task_id]
          /\ last'.val.cleaned_tasks =
                Cardinality(DOMAIN active_tasks \ DOMAIN active_tasks')
      ]_vars

\* a cleanup has just removed a record and left a pending one
C5_Witness ==
    /\ last.op = "cleanup_completed_tasks"
    /\ last.val.cleaned_tasks >= 1
    /\ \E task_id \in DOMAIN active_tasks :
          Status(active_tasks, task_id) = "pending"

\* C6 (as claimed): when the API thread calls cleanup_completed_tasks twice in
\* a row, the second call reports zero removals and leaves the registry as
\* it is, whatever the threads did in between.
C6_SecondCleanupRemovesNothing ==
    [][(cleanup_run \in {"first", "second", "dirty"}
            /\ last'.op = "cleanup_completed_tasks") =>
          /\ last'.val.cleaned_tasks = 0
          /\ active_tasks' = active_tasks
      ]_vars

\* C6 (amended): the second of two calls in a row reports zero removals and
\* leaves the registry as it is when no thread has written the registry
\* between the two calls.
C6_SecondCleanupAfterNoWrite ==
    [][(cleanup_run \in {"first", "second"}
            /\ last'.op = "cleanup_completed_tasks") =>
          /\ last'.val.cleaned_tasks = 0
          /\ active_tasks' = active_tasks
      ]_vars

\* a repeated cleanup has just run while the thread of a pending task is live
C6_Witness ==
    /\ cleanup_run = "second"
    /\ last.op = "cleanup_completed_tasks"
    /\ \E t \in BagToSet(threads) :
          /\ t.task_id \in DOMAIN active_tasks
          /\ Status(active_tasks, t.task_id) = "pending"

\* C7: start_task returns an id that no record of the registry has.
C7_FreshTaskId ==
    [][last'.op = "start_task" => last'.val.str \notin DOMAIN active_tasks]_vars

\* C8: get_task_status of an id that is not in the registry raises not-found;
\* of an id that is, it returns the record's status, result and error; in
\* both cases the registry stays as it is.
C8_GetTaskStatus ==
    [][last'.op = "get_task_status" =>
          /\ active_tasks' = active_tasks
          /\ IF last'.arg \notin DOMAIN active_tasks
             THEN /\ last'.kind = "raise"
                  /\ last'.val = Str(NotFoundMsg(last'.arg))
             ELSE LET task_info == active_tasks[last'.arg]
                  IN  /\ last'.kind = "return"
                      /\ last'.val.task_id = last'.arg
                      /\ last'.val.status = task_info["status"]
                      /\ last'.val.result =
                            IF "result" \in DOMAIN task_info
                            THEN task_info["result"] ELSE None
                      /\ last'.val.error =
                            IF "error" \in DOMAIN task_info
                            THEN task_info["error"] ELSE None
      ]_vars

\* get_task_status has just returned a completed task with its result
C8_Witness ==
    /\ last.op = "get_task_status" /\ last.kind = "return"
    /\ last.val.status = "completed"
    /\ last.val.result # None

\* C9: get_task_status never returns status completed without the result,
\* nor status failed without the error.
C9_CompletionReadWhole ==
    (last.op = "get_task_status" /\ last.kind = "return") =>
        /\ last.val.status = "completed" => last.val.result # None
        /\ last.val.status = "failed" => last.val.error # None

\* C23: cancel_task leaves every worker thread where it is; a thread whose
\* record is cancelled can still take its next step, its simulator call ends
\* (in the success or in the failure path) and its status write on the
\* record, when the record is still there, replaces cancelled by completed
\* or failed
C23_CancelDoesNotStopWorker ==
    /\ [][last'.op = "cancel_task" => threads' = threads]_vars
    /\ [](\A t \in BagToSet(threads) :
            /\ t.pc = "run" => ENABLED RunSimulator(t)
            /\ t.pc = "l159" => ENABLED SetCompleted(t)
            /\ t.pc = "l162" => ENABLED SetFailed(t))
    /\ [][\A t \in BagToSet(threads) :
            (/\ Stepped(t)
             /\ t.task_id \in DOMAIN active_tasks
             /\ Status(active_tasks, t.task_id) = "cancelled") =>
                /\ t.pc = "run" =>
                      \E t2 \in BagToSet(threads') :
                          /\ t2.task_id = t.task_id
                          /\ t2.pc \in {"l159", "l162"}
                          /\ CopiesIn(t2, threads') > CopiesIn(t2, threads)
                /\ t.pc = "l159" => Status(active_tasks', t.task_id) = "completed"
                /\ t.pc = "l162" => Status(active_tasks', t.task_id) = "failed"
         ]_vars

\* cancel_task has just cancelled a pending task whose thread has not yet
\* called its simulator
C23_Witness ==
    /\ last.op = "cancel_task" /\ last.kind = "return"
    /\ Status(active_tasks, last.arg) = "cancelled"
    /\ ~("result" \in DOMAIN active_tasks[last.arg])
    /\ ~("error" \in DOMAIN active_tasks[last.arg])
    /\ \E t \in BagToSet(threads) : t.task_id = last.arg /\ t.pc = "run"

\* the exception thread t holds was reported in t's run_background_task
\* call: it is the error of one of the ways the call can end, and that way
\* reports it.  (The other exception a thread can hold, the KeyError of a
\* registry write, has another message and is reported nowhere.)
WasReported(t) ==
    \E r \in Outcomes(t.task_name) : ~r.ok /\ r.msg = t.val /\ t.val \in r.reported

\* C24: whenever a thread sets a record's status to failed, the exception it
\* holds was reported earlier in its execution, and its next write sets the
\* error field of that record to the exception's message
C24_ReportsThenRecords ==
    [][\A t \in BagToSet(threads) :
          Stepped(t) =>
              /\ (t.pc = "l162" /\ t.task_id \in DOMAIN active_tasks) =>
                    /\ Status(active_tasks', t.task_id) = "failed"
                    /\ WasReported(t)
              /\ t.pc = "l163" =>
                    /\ t.task_id \in DOMAIN active_tasks
                    /\ active_tasks'[t.task_id]["error"] = t.val
      ]_vars

\* C27: every write of a worker thread finds its record in the registry,
\* and the only exception a call of the registry raises is not-found for an
\* id that is absent when the call starts
C27_NoAccessFails ==
    [][/\ \A t \in BagToSet(threads) :
             (Stepped(t) /\ t.pc # "run") => t.task_id \in DOMAIN active_tasks
       /\ last'.kind = "raise" =>
             /\ last'.op \in {"get_task_status", "cancel_task"}
             /\ last'.arg \notin DOMAIN active_tasks
             /\ last'.val.str = NotFoundMsg(last'.arg)]_vars

\* C26: no record of the registry holds both a result and an error
C26_ResultOrErrorNotBoth ==
    \A task_id \in DOMAIN active_tasks :
        ~("result" \in DOMAIN active_tasks[task_id]
          /\ "error" \in DOMAIN active_tasks[task_id])

\* C29: cancel_task(id) leaves the registry's ids as they are, every record
\* but id's as it is, and of id's record every field but status: a record
\* cancelled after completion still holds its result, which get_task_status
\* returns
C29_CancelChangesStatusOnly ==
    [][last'.op = "cancel_task" =>
          /\ DOMAIN active_tasks' = DOMAIN active_tasks
          /\ \A task_id \in DOMAIN active_tasks :
                /\ DOMAIN active_tasks'[task_id] = DOMAIN active_tasks[task_id]
                /\ \A key \in DOMAIN active_tasks[task_id] :
                      (task_id # last'.arg \/ key # "status") =>
                          active_tasks'[task_id][key] = active_tasks[task_id][key]
          /\ \A task_id \in DOMAIN active_tasks :
                get_task_status(active_tasks', task_id).val.result =
                    get_task_status(active_tasks, task_id).val.result
      ]_vars

\* cancel_task has just cancelled a completed record that holds its result,
\* beside another record that holds an error
C29_Witness ==
    /\ last.op = "cancel_task" /\ last.kind = "return"
    /\ Status(active_tasks, last.arg) = "cancelled"
    /\ Get(active_tasks[last.arg], "result") # None
    /\ \E task_id \in DOMAIN active_tasks \ {last.arg} :
          /\ Status(active_tasks, task_id) = "failed"
          /\ "error" \in DOMAIN active_tasks[task_id]

-----------------------------------------------------------------------------
(* Claims about the Domain Simulators                                       *)

\* the fault a simulator raises on its fault-policy branch, and the
\* probability its draw is compared with
DesignatedFault(name) ==
    CASE name = "validate_email" ->
           [p |-> P_validate_email, msg |-> "Email validation service unavailable"]
      [] name = "calculate_discount" ->
           [p |-> P_calculate_discount, msg |-> "Discount calculation service error"]
      [] name = "process_payment" ->
           [p |-> P_process_payment, msg |-> "Payment gateway temporarily unavailable"]
      [] name = "send_notification" ->
           [p |-> P_send_notification, msg |-> "Notification service unavailable"]
      [] name = "fetch_weather_data" ->
           [p |-> P_fetch_weather_data, msg |-> "Weather service temporarily unavailable"]
      [] name = "generate_report" ->
           [p |-> P_generate_report, msg |-> "Report generation service error"]
      [] name = "cleanup_old_data" ->
           [p |-> P_cleanup_old_data, msg |-> "Data cleanup service error"]
      [] name = "process_file" ->
           [p |-> P_process_file, msg |-> "File system temporarily unavailable"]
      [] name = "send_email_async" ->
           [p |-> P_send_email_async, msg |-> "Email service temporarily unavailable"]
      [] name = "sync_external_data" ->
           [p |-> P_sync_external_data, msg |-> "External sync service error"]
      [] name = "call_external_api" ->
           [p |-> P_call_external_api, msg |-> "API request timed out"]

\* the invocation passes the simulator's input validation and the backend,
\* where there is one, answers
ValidInputs(i) ==
    /\ i.backend \in {None, "ok"}
    /\ CASE i.name = "validate_email" -> MatchesEmailPattern(i.args.email)
         [] i.name = "calculate_discount" ->
              /\ i.args.price >= 0
              /\ i.args.discount_percent >= 0 /\ i.args.discount_percent <= 100
         [] i.name = "process_payment" ->
              /\ Len(i.args.card_number) >= 10
              /\ i.args.amount > 0 /\ i.args.amount <= 10000
         [] i.name = "generate_report" -> i.args.data # <<>>
         [] i.name = "cleanup_old_data" ->
              i.args.data_type # "" /\ i.args.older_than_days >= 0
         [] i.name = "process_file" -> i.args.file_path # "" /\ i.args.exists
         [] OTHER -> TRUE

FaultRaised(i) ==
    ~i.outcome.ok /\ i.outcome.msg = DesignatedFault(i.name).msg

\* C10: a Domain Simulator called with valid inputs raises its designated
\* fault exactly when the draw of that invocation is below its fault
\* probability
C10_FaultIffDrawBelowProbability ==
    (sim.name # None /\ ValidInputs(sim)) =>
        (FaultRaised(sim) <=> sim.draw < DesignatedFault(sim.name).p)

\* {msg} when the precondition is violated, nothing otherwise
When(violated, msg) == IF violated THEN {msg} ELSE {}

\* the messages of the preconditions that the inputs of invocation i violate
PreconditionErrors(i) ==
    CASE i.name = "validate_email" ->
           When(i.args.email = <<>>, "Email cannot be empty")
           \cup When(i.args.email # <<>> /\ ~MatchesEmailPattern(i.args.email),
                     "Invalid email format")
      [] i.name = "calculate_discount" ->
           When(i.args.price < 0, "Price cannot be negative")
           \cup When(i.args.discount_percent < 0 \/ i.args.discount_percent > 100,
                     "Discount percent must be between 0 and 100")
      [] i.name = "process_payment" ->
           When(Len(i.args.card_number) < 10, "Invalid card number")
           \cup When(i.args.amount <= 0, "Invalid payment amount")
           \cup When(i.args.amount > 10000, "Payment amount exceeds limit")
      [] i.name = "generate_report" ->
           When(i.args.data = <<>>, "No data provided for report generation")
      [] i.name = "cleanup_old_data" ->
           When(i.args.data_type = "", "Data type cannot be empty")
           \cup When(i.args.older_than_days < 0, "Days must be positive")
      [] i.name = "process_file" ->
           When(i.args.file_path = "", "File path cannot be empty")
           \cup When(i.args.file_path # "" /\ ~i.args.exists,
                     "File not found: " \o i.args.file_path)
      [] OTHER -> {}

\* C11: an invocation whose inputs violate a precondition fails with that
\* precondition's error, never with the injected fault, whatever the draw.
C11_PreconditionsBeforeFaultPolicy ==
    (sim.name # None /\ PreconditionErrors(sim) # {}) =>
        /\ ~sim.outcome.ok
        /\ sim.outcome.msg \in PreconditionErrors(sim)

\* C12: calculate_discount with price < 0, or with discount_percent outside
\* 0..100, fails with the ValueError of that check for every user_type and
\* every draw; price 0 and discount_percent 0 and 100 pass the checks, the
\* call then fails only with the injected fault.
C12_DiscountChecksBeforeFaultPolicy ==
    sim.name = "calculate_discount" =>
        LET a == sim.args
            o == sim.outcome
        IN  /\ a.price < 0 =>
                  /\ ~o.ok /\ o.exc = "ValueError"
                  /\ o.msg = "Price cannot be negative"
            /\ (a.price >= 0 /\ (a.discount_percent < 0 \/ a.discount_percent > 100)) =>
                  /\ ~o.ok /\ o.exc = "ValueError"
                  /\ o.msg = "Discount percent must be between 0 and 100"
            /\ (a.price >= 0 /\ a.discount_percent >= 0 /\ a.discount_percent <= 100) =>
                  \/ o.ok
                  \/ /\ o.msg = "Discount calculation service error"
                     /\ sim.draw < P_calculate_discount

\* a negative price has been rejected on a draw that would have injected the fault
C12_Witness ==
    /\ sim.name = "calculate_discount"
    /\ sim.args.price < 0 /\ sim.args.user_type = "vip"
    /\ sim.draw < P_calculate_discount
    /\ sim.outcome.msg = "Price cannot be negative"

\* the multiplier the specification gives a user type, in tenths
SpecMultiplier(user_type) ==
    IF user_type = "premium" THEN 11 ELSE IF user_type = "vip" THEN 12 ELSE 10

\* C13: on its success path calculate_discount returns discount_amount =
\* price * discount_percent/100 * multiplier(user_type) and final_price =
\* price - discount_amount (both in thousandths here), and echoes
\* original_price, discount_percent and user_type; price 100, discount 10,
\* vip gives 12 and 88.
C13_DiscountPayload ==
    (sim.name = "calculate_discount" /\ sim.outcome.ok) =>
        LET a == sim.args
            d == sim.outcome.dict
        IN  /\ d.discount_amount =
                  a.price * a.discount_percent * SpecMultiplier(a.user_type)
            /\ d.final_price = a.price * 1000 - d.discount_amount
            /\ d.original_price = a.price
            /\ d.discount_percent = a.discount_percent
            /\ d.user_type = a.user_type
            /\ (a.price = 100 /\ a.discount_percent = 10 /\ a.user_type = "vip") =>
                  d.discount_amount = 12000 /\ d.final_price = 88000

\* the worked example: price 100, discount 10, vip has returned
C13_Witness ==
    /\ sim.name = "calculate_discount" /\ sim.outcome.ok
    /\ sim.args = [price |-> 100, discount_percent |-> 10, user_type |-> "vip"]
    /\ sim.outcome.dict.final_price = 88000

\* the precondition of process_payment that the claim names is violated
PaymentPreconditionViolated(a) ==
    a.card_number = "" \/ a.amount <= 0 \/ a.amount > 10000

\* C14 (as claimed): process_payment with an empty card number, an amount
\* <= 0 or an amount > 10000 fails with an error of kind Validation or
\* BusinessLogic.
C14_PaymentPreconditionKind ==
    (sim.name = "process_payment" /\ PaymentPreconditionViolated(sim.args)) =>
        /\ ~sim.outcome.ok
        /\ sim.outcome.exc \in {"ValidationError", "BusinessLogicError", "ValueError"}

\* C14 (amended): process_payment with an empty card number, an amount <= 0
\* or an amount > 10000 fails, whatever the draw, with a PaymentError whose
\* message is that of the first violated check; amount 10000 with a card
\* number of 10 characters or more passes the checks, the call then fails
\* only with the injected gateway fault.
C14_PaymentPreconditions ==
    sim.name = "process_payment" =>
        LET a == sim.args
            o == sim.outcome
        IN  /\ PaymentPreconditionViolated(a) =>
                  /\ ~o.ok /\ o.exc = "PaymentError"
                  /\ o.msg = IF Len(a.card_number) < 10 THEN "Invalid card number"
                             ELSE IF a.amount <= 0 THEN "Invalid payment amount"
                             ELSE "Payment amount exceeds limit"
            /\ (Len(a.card_number) >= 10 /\ a.amount = 10000) =>
                  \/ o.ok /\ sim.draw >= P_process_payment
                  \/ /\ o.msg = "Payment gateway temporarily unavailable"
                     /\ sim.draw < P_process_payment

\* a payment of exactly 10000 on a valid card has gone through
C14_Witness ==
    /\ sim.name = "process_payment"
    /\ sim.args.amount = 10000 /\ sim.args.card_number = "4111111111111111"
    /\ sim.outcome.ok

\* C15: a simulator called with valid inputs whose fault draw does not fire
\* returns its payload and raises no error.
C15_SuccessOnValidInputs ==
    (sim.name # None /\ ValidInputs(sim)
        /\ sim.draw >= DesignatedFault(sim.name).p) => sim.outcome.ok

\* the simulators whose first except clause re-raises their own error
\* class as it is (except ValidationError: raise, and the like)
RaisingTyped ==
    {"validate_email", "calculate_discount", "process_payment",
     "send_notification", "fetch_weather_data", "generate_report",
     "process_file", "cleanup_old_data"}

\* the error of invocation i is one the simulator raised itself: a violated
\* precondition, the injected fault, or the notification the backend rejected
OwnError(i) ==
    \/ i.outcome.msg \in PreconditionErrors(i)
    \/ i.outcome.msg = DesignatedFault(i.name).msg
    \/ i.name = "send_notification"
          /\ i.outcome.msg = "Notification failed with status 500"

\* C20 as claimed: whenever a Domain Simulator raises an error to its
\* caller, the error has been reported to the Capture Gateway before
C20_ReportedBeforeRaised ==
    (sim.name # None /\ ~sim.outcome.ok) => sim.outcome.reported # {}

\* C20, amended: a simulator of utils.py or external_apis.py other than
\* call_external_api raises its own errors (violated preconditions, injected
\* faults) unreported and reports exactly the unexpected errors it wraps,
\* before raising the wrapped error; the background simulators and
\* call_external_api report every error before raising it
C20_ReportedUnlessTyped ==
    (sim.name # None /\ ~sim.outcome.ok) =>
        IF sim.name \in RaisingTyped
        THEN (sim.outcome.reported = {}) <=> OwnError(sim)
        ELSE sim.outcome.reported # {}

\* C20: fetch_weather_data has wrapped the timeout of its backend, having
\* reported it
C20_Witness ==
    /\ sim.name = "fetch_weather_data" /\ sim.backend = "timeout"
    /\ ~sim.outcome.ok
    /\ sim.outcome.msg = "Weather data fetch failed: Read timed out"
    /\ sim.outcome.reported = {"Read timed out"}

\* C21: process_payment called with card number "invalid-card" and amount
\* 100.00 raises a payment error for every draw and never returns a
\* transaction
C21_InvalidCardRejected ==
    (/\ sim.name = "process_payment"
     /\ sim.args.card_number = "invalid-card"
     /\ sim.args.amount = 100)
    => ~sim.outcome.ok /\ sim.outcome.exc = "PaymentError"

\* C22: whenever the fault draw of call_external_api fires, the call fails
\* with the ExternalAPI timeout error and returns no response, however the
\* backend answers
C22_InjectedTimeout ==
    (sim.name = "call_external_api" /\ should_fail(sim.draw, P_call_external_api))
    => /\ ~sim.outcome.ok
       /\ sim.outcome.exc = "ExternalAPIError"
       /\ sim.outcome.msg = "API request timed out"

\* C28 (as claimed): whenever calculate_discount returns, discount_amount
\* and final_price both lie between 0 and price (amounts in thousandths)
C28_DiscountWithinPrice ==
    (sim.name = "calculate_discount" /\ sim.outcome.ok) =>
        LET d == sim.outcome.dict
        IN  /\ 0 <= d.discount_amount /\ d.discount_amount <= sim.args.price * 1000
            /\ 0 <= d.final_price /\ d.final_price <= sim.args.price * 1000

\* C28 (amended): whenever calculate_discount returns, discount_amount is at
\* least 0 and final_price at most price; discount_amount is at most price
\* and final_price at least 0 when discount_percent times the user type's
\* multiplier is at most 100, and for a positive price only then
C28_DiscountWithinMultipliedPrice ==
    (sim.name = "calculate_discount" /\ sim.outcome.ok) =>
        LET a == sim.args
            d == sim.outcome.dict
            within == a.discount_percent * SpecMultiplier(a.user_type) <= 1000
        IN  /\ 0 <= d.discount_amount
            /\ d.final_price <= a.price * 1000
            /\ within =>
                  d.discount_amount <= a.price * 1000 /\ 0 <= d.final_price
            /\ (~within /\ a.price > 0) =>
                  d.discount_amount > a.price * 1000 /\ d.final_price < 0

\* calculate_discount has returned a negative final_price for a vip
C28_Witness ==
    /\ sim.name = "calculate_discount" /\ sim.outcome.ok
    /\ sim.args = [price |-> 100, discount_percent |-> 100, user_type |-> "vip"]
    /\ sim.outcome.dict.discount_amount = 120000
    /\ sim.outcome.dict.final_price = -20000

-----------------------------------------------------------------------------
(* Claims about the Entity Store.  In an action formula, db_call'.op = op   *)
(* on a step that changes a variable says the step is that call.  The       *)
(* stored users are the entries get_all_users answers with.                 *)

Listing == get_all_users(SQLALCHEMY_AVAILABLE, SessionLocal, users, 99)

StoredIds == {entry.id : entry \in Listing.list}

StoredEmails == {entry.email : entry \in Listing.list}

\* C16: no two stored users ever share an email, and create_user with an
\* email that is in use fails with the Conflict error ("User with email ...
\* already exists") and adds no user, with and without sqlalchemy
C16_EmailUniqueness ==
    /\ [](Listing.ok =>
            \A a, b \in Listing.list : a.email = b.email => a.id = b.id)
    /\ [][(/\ db_call'.op = "create_user"
           /\ Listing.ok
           /\ db_call'.args.email \in StoredEmails)
          => /\ ~db_call'.outcome.ok
             /\ db_call'.outcome.msg = AlreadyExistsMsg(db_call'.args.email)
             /\ users' = users]_vars

\* C17: get_user, update_user and delete_user with an id that no stored
\* user has fail with UserNotFoundError and leave the store unchanged, with
\* and without sqlalchemy
C17_AbsentIdNotFound ==
    [][(/\ db_call'.op \in {"get_user", "update_user", "delete_user"}
        /\ Listing.ok
        /\ db_call'.args.user_id \notin StoredIds)
       => /\ ~db_call'.outcome.ok
          /\ db_call'.outcome.exc = "UserNotFoundError"
          /\ users' = users]_vars

\* C18 as claimed: from an initialised store, after N successful create_user
\* calls with pairwise distinct emails and no delete, get_all_users returns
\* exactly N entries, one per created user
C18_ListAfterCreates ==
    since_init.tracked =>
        /\ Listing.ok
        /\ Cardinality(Listing.list) = since_init.n
        /\ since_init.ids \subseteq StoredIds

\* C18, amended: with sqlalchemy the store holds K >= 1 users when init_db
\* returns (the three test users if the table was empty, else the users it
\* held already), and after N successful create_user calls with pairwise
\* distinct emails and no delete get_all_users returns exactly K + N
\* entries, those K users and one per created user; without sqlalchemy it
\* returns its fixed two entries whatever was created
C18_ListAfterCreatesAndInitial ==
    since_init.tracked =>
        IF SQLALCHEMY_AVAILABLE
        THEN /\ Listing.ok
             /\ IF since_init.before = {}
                THEN Cardinality(since_init.initial) = Len(test_users)
                ELSE since_init.initial = since_init.before
             /\ since_init.initial # {}
             /\ since_init.initial \cap since_init.ids = {}
             /\ Cardinality(since_init.ids) = since_init.n
             /\ StoredIds = since_init.initial \cup since_init.ids
             /\ Cardinality(Listing.list) =
                   Cardinality(since_init.initial) + since_init.n
        ELSE /\ Listing.ok
             /\ StoredIds = {1, 2}

\* C18: a user has been created in a store that init_db seeded, and
\* get_all_users has answered with the three test users and the new one
C18_Witness ==
    /\ since_init.tracked /\ SQLALCHEMY_AVAILABLE
    /\ since_init.before = {} /\ since_init.n = 1
    /\ db_call.op = "get_all_users" /\ db_call.outcome.ok
    /\ Cardinality(db_call.outcome.list) = Len(test_users) + 1
    /\ since_init.ids \subseteq {entry.id : entry \in db_call.outcome.list}

-----------------------------------------------------------------------------
(* Claims about the Capture Gateway *)

\* the event came back from the hook with what it went in with: its keys,
\* its message, and the tags and contexts the hook does not set
Passed(in, out) ==
    /\ DOMAIN in \subseteq DOMAIN out
    /\ out.message = in.message
    /\ "tags" \in DOMAIN in =>
          \A k \in DOMAIN in.tags \ {"component", "test_project"} :
              k \in DOMAIN out.tags /\ out.tags[k] = in.tags[k]
    /\ "contexts" \in DOMAIN in =>
          \A k \in DOMAIN in.contexts \ {"test_info"} :
              k \in DOMAIN out.contexts /\ out.contexts[k] = in.contexts[k]

\* the tags and the context block of the hook, component being c
Enriched(out, c) ==
    /\ {"tags", "contexts"} \subseteq DOMAIN out
    /\ {"component", "test_project"} \subseteq DOMAIN out.tags
    /\ out.tags.component = c
    /\ out.tags.test_project = "true"
    /\ "test_info" \in DOMAIN out.contexts
    /\ DOMAIN out.contexts.test_info = {"purpose", "version"}

\* C19 as claimed: every event leaves the hook tagged component ==
\* "test-project" and test_project == "true", with the purpose/version
\* context block, whatever it carried before, and none is dropped
C19_EventTaggedTestProject ==
    event.called => Enriched(event.out, "test-project") /\ Passed(event.in, event.out)

\* C19, amended: every event leaves the hook tagged component ==
\* "test-python" and test_project == "true", with the purpose/version
\* context block, whatever it carried before, and none is dropped
C19_EventTaggedTestPython ==
    event.called => Enriched(event.out, "test-python") /\ Passed(event.in, event.out)

\* C19: an event that came with another component tag, a test_info context
\* of its own and a context besides has passed the hook
C19_Witness ==
    /\ event.called
    /\ {"tags", "contexts"} \subseteq DOMAIN event.in
    /\ "component" \in DOMAIN event.in.tags
    /\ event.in.tags.component = "test-project"
    /\ DOMAIN event.in.contexts = {"test_info", "os"}
    /\ event.out.tags.component = "test-python"
    /\ event.out.contexts.test_info.version = "1.0.0"

-----------------------------------------------------------------------------
(* Claims about the /api/v1 handlers *)

\* C25: a handler whose try block ends with an exception answers success
\* false with the exception's message as error, with status 400 for a
\* ValidationError, 404 for a UserNotFoundError on the user get, update and
\* delete routes and 500 for anything else, and has reported the exception
\* by then; a handler answers success exactly when no exception was raised
C25_FailureClassifiedAndReported ==
    /\ response.exc # None <=> ~response.success
    /\ ~response.success =>
          /\ response.status =
                IF response.exc = "ValidationError" THEN 400
                ELSE IF /\ response.exc = "UserNotFoundError"
                        /\ response.route \in {"api_get_user", "api_update_user",
                                               "api_delete_user"}
                THEN 404
                ELSE 500
          /\ response.error # None
          /\ response.error \in response.reported
    /\ response.success => response.status \in {0, 200, 201}

\* a user route has answered 404 for an id the store does not hold, and an
\* earlier request was answered too
C25_Witness ==
    /\ nrequests = MaxRequests
    /\ response.route \in {"api_get_user", "api_update_user", "api_delete_user"}
    /\ response.exc = "UserNotFoundError"
    /\ response.status = 404
    /\ ~response.success

====
